---- MODULE Spec2Model ----
(***************************************************************************)
(* Model of the repository-intelligence core of github-cleaner:            *)
(* GitHubService.scan_security, get_repo_health and analyze_repo           *)
(* (src/api/services/github_service.py) run against a repository served by *)
(* the PyGithub accessor.  Text is modelled as a sequence of one-character *)
(* strings, so that split, strip, lower, endswith and `in` are computed as *)
(* Python computes them.                                                    *)
(***************************************************************************)
EXTENDS Integers, Sequences, FiniteSets, TLC

VARIABLES
    repo,   \* the remote repository the accessor serves (metadata and tree)
    call,   \* the service call in progress or just returned to the caller
    walk,   \* the tree-walker call in progress or just returned
    store,  \* Cache._cache: key -> (value, expiry)
    now,    \* time.time()
    thread, \* the cache operation each thread is running, and its locals
    lastSet \* history: the last set of each key (value, time, ttl)

cacheVars == <<store, now, thread, lastSet>>

vars == <<repo, call, walk, cacheVars>>

(***************************************************************************)
(* Bounds of the model.                                                    *)
(***************************************************************************)
\* lines of text in the scan candidate whose content is enumerated
MaxLines == 2
\* accessor calls that fail during one service call
MaxFail == 2

(***************************************************************************)
(* Python str operations on sequences of characters.                       *)
(***************************************************************************)
UpperChars == <<"A","B","C","D","E","F","G","H","I","J","K","L","M","N","O","P","Q","R","S","T","U","V","W","X","Y","Z">>
LowerChars == <<"a","b","c","d","e","f","g","h","i","j","k","l","m","n","o","p","q","r","s","t","u","v","w","x","y","z">>

\* str.lower() on one character
LowerChar(c) ==
    IF \E i \in 1..Len(UpperChars) : UpperChars[i] = c
    THEN LowerChars[CHOOSE i \in 1..Len(UpperChars) : UpperChars[i] = c]
    ELSE c

\* str.lower()
Lower(s) == [i \in 1..Len(s) |-> LowerChar(s[i])]

\* `sub in s` for strings
Contains(sub, s) ==
    \E i \in 0..(Len(s) - Len(sub)) :
        \A j \in 1..Len(sub) : s[i + j] = sub[j]

\* s.endswith(suffix)
EndsWith(s, suffix) ==
    /\ Len(suffix) <= Len(s)
    /\ \A j \in 1..Len(suffix) : s[Len(s) - Len(suffix) + j] = suffix[j]

\* s.split(sep) for a one-character separator: always at least one piece
RECURSIVE Split(_, _)
Split(s, sep) ==
    IF \A i \in 1..Len(s) : s[i] # sep
    THEN <<s>>
    ELSE LET k == CHOOSE i \in 1..Len(s) :
                      s[i] = sep /\ \A j \in 1..(i - 1) : s[j] # sep
         IN  <<SubSeq(s, 1, k - 1)>> \o Split(SubSeq(s, k + 1, Len(s)), sep)

\* s.split(sep, 1)[1]: the text after the first separator (sep occurs in s)
AfterFirst(s, sep) ==
    LET k == CHOOSE i \in 1..Len(s) :
                 s[i] = sep /\ \A j \in 1..(i - 1) : s[j] # sep
    IN  SubSeq(s, k + 1, Len(s))

\* s.strip(chars): drops every leading and trailing character in chars
StripChars(s, chars) ==
    IF \A i \in 1..Len(s) : s[i] \in chars
    THEN <<>>
    ELSE LET a == CHOOSE i \in 1..Len(s) :
                      s[i] \notin chars /\ \A j \in 1..(i - 1) : s[j] \in chars
             b == CHOOSE i \in 1..Len(s) :
                      s[i] \notin chars /\ \A j \in (i + 1)..Len(s) : s[j] \in chars
         IN  SubSeq(s, a, b)

Whitespace == {" ", "\t", "\n", "\r"}

\* s.strip()
Strip(s) == StripChars(s, Whitespace)

\* sep.join(parts)
RECURSIVE Join(_, _)
Join(parts, sep) ==
    IF parts = <<>> THEN <<>>
    ELSE IF Len(parts) = 1 THEN parts[1]
    ELSE parts[1] \o sep \o Join(Tail(parts), sep)

\* s.startswith(prefix)
StartsWith(s, prefix) ==
    /\ Len(prefix) <= Len(s)
    /\ \A j \in 1..Len(prefix) : s[j] = prefix[j]

\* s.replace(old, new): every occurrence, left to right
RECURSIVE Replace(_, _, _)
Replace(s, old, new) ==
    IF Len(s) < Len(old) \/ s = <<>> THEN s
    ELSE IF StartsWith(s, old)
    THEN new \o Replace(SubSeq(s, Len(old) + 1, Len(s)), old, new)
    ELSE <<s[1]>> \o Replace(Tail(s), old, new)

\* s.split(): the runs of characters that are not whitespace
RECURSIVE SplitWhitespace(_)
SplitWhitespace(s) ==
    IF \A i \in 1..Len(s) : s[i] \in {" ", "\t", "\n", "\r"} THEN <<>>
    ELSE LET ws == {" ", "\t", "\n", "\r"}
             a == CHOOSE i \in 1..Len(s) : s[i] \notin ws /\ \A j \in 1..(i - 1) : s[j] \in ws
             b == CHOOSE i \in (a + 1)..(Len(s) + 1) :
                      /\ i = Len(s) + 1 \/ s[i] \in ws
                      /\ \A j \in a..(i - 1) : s[j] \notin ws
         IN  <<SubSeq(s, a, b - 1)>> \o SplitWhitespace(SubSeq(s, b, Len(s)))

\* x in list
InList(x, list) == \E i \in 1..Len(list) : list[i] = x

(***************************************************************************)
(* Constants of scan_security.                                             *)
(***************************************************************************)
dangerous_files == <<
    <<".","e","n","v">>, <<".","e","n","v",".","l","o","c","a","l">>, <<".","e","n","v",".","p","r","o","d","u","c","t","i","o","n">>, <<".","e","n","v",".","d","e","v","e","l","o","p","m","e","n","t">>,
    <<"c","r","e","d","e","n","t","i","a","l","s",".","j","s","o","n">>, <<"s","e","r","v","i","c","e","-","a","c","c","o","u","n","t",".","j","s","o","n">>, <<"s","e","c","r","e","t","s",".","j","s","o","n">>,
    <<"c","o","n","f","i","g",".","j","s","o","n">>, <<".","n","p","m","r","c">>, <<".","p","y","p","i","r","c">>, <<"i","d","_","r","s","a">>, <<"i","d","_","e","d","2","5","5","1","9">>,
    <<".","h","t","p","a","s","s","w","d">>, <<"w","p","-","c","o","n","f","i","g",".","p","h","p">>, <<"d","a","t","a","b","a","s","e",".","y","m","l">> >>

secret_patterns == <<
    [pattern |-> <<"A","P","I","_","K","E","Y">>,     msg |-> "API Key exposed"],
    [pattern |-> <<"S","E","C","R","E","T","_","K","E","Y">>,  msg |-> "Secret Key exposed"],
    [pattern |-> <<"P","R","I","V","A","T","E","_","K","E","Y">>, msg |-> "Private Key exposed"],
    [pattern |-> <<"g","h","p","_">>,        msg |-> "GitHub Token exposed"],
    [pattern |-> <<"s","k","-">>,         msg |-> "OpenAI/Stripe Key exposed"],
    [pattern |-> <<"A","I","z","a","S","y">>,      msg |-> "Google API Key exposed"],
    [pattern |-> <<"A","K","I","A">>,        msg |-> "AWS Access Key exposed"],
    [pattern |-> <<"p","a","s","s","w","o","r","d">>,    msg |-> "Password found"],
    [pattern |-> <<"B","e","a","r","e","r"," ">>,     msg |-> "Bearer token exposed"] >>

\* the values the scan takes for placeholders, not secrets
placeholders == << <<>>, <<"y","o","u","r","_","k","e","y","_","h","e","r","e">>, <<"x","x","x">>, <<"Y","O","U","R","_","A","P","I","_","K","E","Y">> >>

should_ignore == <<
    <<".","e","n","v">>, <<"n","o","d","e","_","m","o","d","u","l","e","s">>, <<"_","_","p","y","c","a","c","h","e","_","_">>, <<".","v","e","n","v">>, <<"v","e","n","v">>, <<"*",".","p","y","c">> >>

\* directory names _get_all_files does not descend into
excluded_dirs == << <<"n","o","d","e","_","m","o","d","u","l","e","s">>, <<".","g","i","t">>, <<"v","e","n","d","o","r">>, <<"_","_","p","y","c","a","c","h","e","_","_">> >>

\* files[:100] in _get_all_files
MaxFilesListed == 100

GitignorePath == <<".","g","i","t","i","g","n","o","r","e">>

(***************************************************************************)
(* The repository as the accessor serves it.  An entry of a listing is a   *)
(* record [name, type, path, kids, content]: kids is the listing of a      *)
(* directory, content the [utf8, text] of a file (utf8 = FALSE: the bytes  *)
(* do not decode as UTF-8).                                                *)
(***************************************************************************)
NoContent == [utf8 |-> TRUE, text |-> <<>>]

PathOf(dir, name) == IF dir = <<>> THEN name ELSE dir \o <<"/">> \o name

File(dir, name, content) ==
    [name |-> name, type |-> "file", path |-> PathOf(dir, name),
     kids |-> <<>>, content |-> content]

Dir(dir, name, kids) ==
    [name |-> name, type |-> "dir", path |-> PathOf(dir, name),
     kids |-> kids, content |-> NoContent]

\* the entry at `path` below a listing, as a set (empty: no such path)
RECURSIVE Lookup(_, _)
Lookup(entries, path) ==
    UNION { IF entries[i].path = path THEN {entries[i]}
            ELSE IF entries[i].type = "dir" THEN Lookup(entries[i].kids, path)
            ELSE {} : i \in 1..Len(entries) }

\* a failure the accessor raises (GithubException) at one call site
Failure(site, path) == [site |-> site, path |-> path]

\* repo.get_contents(path) of a file: [ok, content]; ok = FALSE stands for the
\* GithubException of a missing path or of a failed request
GetFile(site, path, fail) ==
    LET found == Lookup(repo.tree, path)
    IN  IF Failure(site, path) \in fail \/ found = {}
        THEN [ok |-> FALSE, content |-> NoContent]
        ELSE [ok |-> TRUE, content |-> (CHOOSE e \in found : TRUE).content]

(***************************************************************************)
(* GitHubService._get_all_files                                            *)
(***************************************************************************)
Take(s, n) == IF Len(s) <= n THEN s ELSE SubSeq(s, 1, n)

\* seqs[lo] \o ... \o seqs[hi], by halves
RECURSIVE Concat(_, _, _)
Concat(seqs, lo, hi) ==
    IF lo > hi THEN <<>>
    ELSE IF lo = hi THEN seqs[lo]
    ELSE LET mid == (lo + hi) \div 2
         IN  Concat(seqs, lo, mid) \o Concat(seqs, mid + 1, hi)

\* what a loop appending (or extending by) seqs[1], seqs[2], ... collects
Flatten(seqs) == Concat(seqs, 1, Len(seqs))

RECURSIVE _get_all_files(_, _)
\* one pass of `for content in contents`: the paths added to files
FilesOf(content, fail) ==
    IF content.type = "file" THEN <<content.path>>
    ELSE IF content.type = "dir" /\ ~InList(content.name, excluded_dirs)
    THEN IF Failure("scan.dir", content.path) \in fail
         THEN <<>>
         ELSE _get_all_files(content.kids, fail)
    ELSE <<>>

\* a loop without the try: the first directory whose listing raises ends it
GetAllFilesAbort(contents, fail) ==
    LET raises(i) == /\ contents[i].type = "dir"
                     /\ ~InList(contents[i].name, excluded_dirs)
                     /\ Failure("scan.dir", contents[i].path) \in fail
        done == { i \in 1..Len(contents) : \A j \in 1..i : ~raises(j) }
    IN  Take(Flatten([i \in 1..Cardinality(done) |-> FilesOf(contents[i], fail)]),
             MaxFilesListed)

\* the listing without the final files[:100]
GetAllFilesUncapped(contents, fail) ==
    Flatten([i \in 1..Len(contents) |-> FilesOf(contents[i], fail)])

\* files[:100] of what the loop collected
_get_all_files(contents, fail) ==
    Take(Flatten([i \in 1..Len(contents) |-> FilesOf(contents[i], fail)]),
         MaxFilesListed)

(***************************************************************************)
(* GitHubService.scan_security                                             *)
(***************************************************************************)
Issue(file, text, detail) ==
    [type |-> "CRITICAL", file |-> file, text |-> text, detail |-> detail]

Warning(text, detail) ==
    [type |-> "WARNING", file |-> GitignorePath, text |-> text, detail |-> detail]

\* filename = file_path.split('/')[-1]
BaseName(file_path) ==
    LET parts == Split(file_path, "/") IN parts[Len(parts)]

\* filename.endswith('.env') or 'config' in filename.lower()
IsScanCandidate(filename) ==
    EndsWith(filename, <<".","e","n","v">>) \/ Contains(<<"c","o","n","f","i","g">>, Lower(filename))

\* line.split('=', 1)[1].strip().strip('"').strip("'")
SecretValue(line) ==
    StripChars(StripChars(Strip(AfterFirst(line, "=")), {"\""}), {"'"})

\* LineHits without the comparison against the placeholders
LineHitsAnyValue(pattern, line) ==
    /\ Contains(Lower(pattern), Lower(line))
    /\ InList("=", line)
    /\ SecretValue(line) # <<>>

\* LineHits that looks for the pattern in the key, the text before the first "="
LineHitsKeyOnly(pattern, line) ==
    /\ InList("=", line)
    /\ Contains(Lower(pattern), Lower(Split(line, "=")[1]))
    /\ LET value == SecretValue(line)
       IN  value # <<>> /\ ~InList(value, placeholders)

\* the test of one line against one pattern, and of its value against the placeholders
LineHits(pattern, line) ==
    /\ Contains(Lower(pattern), Lower(line))
    /\ InList("=", line)
    /\ LET value == SecretValue(line)
       IN  value # <<>> /\ ~InList(value, placeholders)

\* the inner loops for one pattern: an issue at the first line that hits, then break
PatternHits(pattern, decoded) ==
    /\ Contains(Lower(pattern), Lower(decoded))
    /\ LET lines == Split(decoded, "\n")
       IN  \E k \in 1..Len(lines) : LineHits(pattern, lines[k])

RECURSIVE SecretIssuesFrom(_, _, _)
\* for pattern, msg in secret_patterns[i..]
SecretIssuesFrom(file_path, decoded, i) ==
    IF i > Len(secret_patterns) THEN <<>>
    ELSE (IF PatternHits(secret_patterns[i].pattern, decoded)
          THEN <<Issue(file_path, secret_patterns[i].msg, <<>>)>>
          ELSE <<>>)
         \o SecretIssuesFrom(file_path, decoded, i + 1)

\* DangerousIssues that compares the whole path with the denylist
DangerousIssuesByPath(file_path) ==
    IF InList(file_path, dangerous_files)
    THEN <<Issue(file_path, "Sensitive file is committed to repo!", BaseName(file_path))>>
    ELSE <<>>

\* the dangerous-filename check of one path
DangerousIssues(file_path) ==
    LET filename == BaseName(file_path)
    IN  IF InList(filename, dangerous_files)
        THEN <<Issue(file_path, "Sensitive file is committed to repo!", filename)>>
        ELSE <<>>

\* the embedded-secret check of one path: fetch, decode, scan; the bare except
\* drops the file when the fetch or the decoding raises
EmbeddedIssues(file_path, fail) ==
    LET filename == BaseName(file_path)
        got == GetFile("scan.file", file_path, fail)
    IN  IF ~IsScanCandidate(filename) THEN <<>>
        ELSE IF ~got.ok \/ ~got.content.utf8 THEN <<>>
        ELSE SecretIssuesFrom(file_path, got.content.text, 1)

RECURSIVE FileIssuesFromAbort(_, _, _)
\* a loop without the inner try: the first candidate whose fetch or decoding
\* raises ends the loop
FileIssuesFromAbort(all_files, i, fail) ==
    IF i > Len(all_files) THEN <<>>
    ELSE LET got == GetFile("scan.file", all_files[i], fail)
         IN  DangerousIssues(all_files[i])
             \o (IF IsScanCandidate(BaseName(all_files[i])) /\ (~got.ok \/ ~got.content.utf8)
                 THEN <<>>
                 ELSE EmbeddedIssues(all_files[i], fail)
                      \o FileIssuesFromAbort(all_files, i + 1, fail))

RECURSIVE FileIssuesFrom(_, _, _)
\* for file_path in all_files[i..]
FileIssuesFrom(all_files, i, fail) ==
    IF i > Len(all_files) THEN <<>>
    ELSE DangerousIssues(all_files[i]) \o EmbeddedIssues(all_files[i], fail)
         \o FileIssuesFrom(all_files, i + 1, fail)

RECURSIVE MissingFrom(_, _)
\* for item in should_ignore[i..]: the items not in gitignore_content
MissingFrom(gitignore_content, i) ==
    IF i > Len(should_ignore) THEN <<>>
    ELSE (IF ~Contains(should_ignore[i], gitignore_content)
          THEN <<should_ignore[i]>> ELSE <<>>)
         \o MissingFrom(gitignore_content, i + 1)

\* GitignoreWarnings without the .lower() of the decoded file
GitignoreWarningsCaseSensitive(fail) ==
    LET got == GetFile("scan.gitignore", GitignorePath, fail)
    IN  IF ~got.ok \/ ~got.content.utf8
        THEN <<Warning("No .gitignore file found!", <<>>)>>
        ELSE LET gitignore_missing == MissingFrom(got.content.text, 1)
             IN  IF gitignore_missing # <<>>
                 THEN <<Warning("Missing entries", Join(gitignore_missing, <<","," ">>))>>
                 ELSE <<>>

\* the .gitignore check: its warnings
GitignoreWarnings(fail) ==
    LET got == GetFile("scan.gitignore", GitignorePath, fail)
    IN  IF ~got.ok \/ ~got.content.utf8
        THEN <<Warning("No .gitignore file found!", <<>>)>>
        ELSE LET gitignore_missing == MissingFrom(Lower(got.content.text), 1)
             IN  IF gitignore_missing # <<>>
                 THEN <<Warning("Missing entries", Join(gitignore_missing, <<","," ">>))>>
                 ELSE <<>>

Max(a, b) == IF a >= b THEN a ELSE b

\* SecurityScore without the max(0, ...)
SecurityScoreUnclamped(issues, warnings) ==
    100 - (Len(issues) * 25) - (Len(warnings) * 10)

\* 'score': max(0, 100 - (len(issues) * 25) - (len(warnings) * 10))
SecurityScore(issues, warnings) ==
    Max(0, 100 - (Len(issues) * 25) - (Len(warnings) * 10))

\* scan_security with the .gitignore check placed after the outer try
ScanGitignoreOutsideTry(fail) ==
    IF Failure("scan.get_repo", <<>>) \in fail
    THEN [raised |-> TRUE, listed |-> FALSE, all_files |-> <<>>,
          issues |-> <<>>, warnings |-> <<>>, score |-> 0, has_critical |-> FALSE]
    ELSE LET listed == Failure("scan.root", <<>>) \notin fail
             all_files == IF listed THEN _get_all_files(repo.tree, fail) ELSE <<>>
             issues == IF listed THEN FileIssuesFrom(all_files, 1, fail) ELSE <<>>
             warnings == GitignoreWarnings(fail)
         IN  [raised |-> FALSE, listed |-> listed, all_files |-> all_files,
              issues |-> issues, warnings |-> warnings,
              score |-> SecurityScore(issues, warnings),
              has_critical |-> Len(issues) > 0]

\* the report of scan_security; raised = TRUE: the call ends in an exception
\* (get_repo); listed and all_files keep the call's locals beside the report
scan_security(fail) ==
    IF Failure("scan.get_repo", <<>>) \in fail
    THEN [raised |-> TRUE, listed |-> FALSE, all_files |-> <<>>,
          issues |-> <<>>, warnings |-> <<>>, score |-> 0, has_critical |-> FALSE]
    ELSE LET listed == Failure("scan.root", <<>>) \notin fail
             all_files == IF listed THEN _get_all_files(repo.tree, fail) ELSE <<>>
             issues == IF listed THEN FileIssuesFrom(all_files, 1, fail) ELSE <<>>
             warnings == IF listed THEN GitignoreWarnings(fail) ELSE <<>>
         IN  [raised |-> FALSE, listed |-> listed, all_files |-> all_files,
              issues |-> issues, warnings |-> warnings,
              score |-> SecurityScore(issues, warnings),
              has_critical |-> Len(issues) > 0]

(***************************************************************************)
(* GitHubService.get_repo_health                                           *)
(***************************************************************************)
\* days_since_push < 180
ActiveDays == 180

\* _has_readme: repo.get_readme() succeeded
_has_readme(site, fail) ==
    repo.readme.present /\ Failure(site, <<>>) \notin fail

Check(name, passed, weight) == [name |-> name, passed |-> passed, weight |-> weight]

\* the entry appended for the activity check, only `if repo.pushed_at`
ActiveChecks ==
    IF repo.pushed.known
    THEN <<Check("Active", repo.pushed.days < ActiveDays, 15)>>
    ELSE <<>>

\* the checks list, in the order of the appends
HealthChecks(has_readme, has_license, has_gitignore, has_desc, has_topics, is_secure) ==
    << Check("README", has_readme, 20),
       Check("LICENSE", has_license, 15),
       Check(".gitignore", has_gitignore, 15),
       Check("Description", has_desc, 10),
       Check("Topics", has_topics, 10) >>
    \o ActiveChecks
    \o << Check("No Secrets Exposed", is_secure, 15) >>

\* HealthScore with `score += 15` moved out of the try of the .gitignore fetch
HealthScoreEager(has_readme, has_license, has_gitignore, has_desc, has_topics, is_secure) ==
      (IF has_readme THEN 20 ELSE 0)
    + (IF has_license THEN 15 ELSE 0)
    + 15
    + (IF has_desc THEN 10 ELSE 0)
    + (IF has_topics THEN 10 ELSE 0)
    + (IF repo.pushed.known /\ repo.pushed.days < ActiveDays THEN 15 ELSE 0)
    + (IF is_secure THEN 15 ELSE 0)

\* HealthScore without the `score += 15` of the activity check
HealthScoreNoActivity(has_readme, has_license, has_gitignore, has_desc, has_topics, is_secure) ==
      (IF has_readme THEN 20 ELSE 0)
    + (IF has_license THEN 15 ELSE 0)
    + (IF has_gitignore THEN 15 ELSE 0)
    + (IF has_desc THEN 10 ELSE 0)
    + (IF has_topics THEN 10 ELSE 0)
    + (IF is_secure THEN 15 ELSE 0)

\* HealthHasGitignore that also wants the .env entry in the file
HealthHasGitignoreStrict(fail) ==
    LET got == GetFile("health.gitignore", GitignorePath, fail)
    IN  got.ok /\ got.content.utf8 /\ Contains(<<".","e","n","v">>, Lower(got.content.text))

\* score after every `score += w`
HealthScore(has_readme, has_license, has_gitignore, has_desc, has_topics, is_secure) ==
      (IF has_readme THEN 20 ELSE 0)
    + (IF has_license THEN 15 ELSE 0)
    + (IF has_gitignore THEN 15 ELSE 0)
    + (IF has_desc THEN 10 ELSE 0)
    + (IF has_topics THEN 10 ELSE 0)
    + (IF repo.pushed.known /\ repo.pushed.days < ActiveDays THEN 15 ELSE 0)
    + (IF is_secure THEN 15 ELSE 0)

\* Grade with each threshold excluded from the grade above it
GradeExclusive(score) ==
    IF score > 90 THEN "A"
    ELSE IF score > 75 THEN "B"
    ELSE IF score > 60 THEN "C"
    ELSE IF score > 40 THEN "D"
    ELSE "F"

\* 'A' if score >= 90 else 'B' if score >= 75 else 'C' if score >= 60 else 'D' if score >= 40 else 'F'
Grade(score) ==
    IF score >= 90 THEN "A"
    ELSE IF score >= 75 THEN "B"
    ELSE IF score >= 60 THEN "C"
    ELSE IF score >= 40 THEN "D"
    ELSE "F"

\* the try around repo.get_contents('.gitignore'): the file was fetched
HealthHasGitignore(fail) == GetFile("health.gitignore", GitignorePath, fail).ok

NoSecurity ==
    [raised |-> TRUE, listed |-> FALSE, all_files |-> <<>>,
     issues |-> <<>>, warnings |-> <<>>, score |-> 0, has_critical |-> FALSE]

NoHealth == [raised |-> TRUE, score |-> 0, grade |-> "", checks |-> <<>>, security |-> NoSecurity]

\* the result of get_repo_health; raised = TRUE: the call ends in an exception
\* (get_repo, the unguarded repo.get_topics(), or scan_security's own get_repo)
get_repo_health(fail) ==
    LET has_readme == _has_readme("health.readme", fail)
        has_license == repo.license
        has_gitignore == HealthHasGitignore(fail)
        has_desc == repo.description # <<>>
        has_topics == Len(repo.topics) > 0
        security == scan_security(fail)
        is_secure == ~security.has_critical
        score == HealthScore(has_readme, has_license, has_gitignore,
                             has_desc, has_topics, is_secure)
    IN  IF \/ Failure("health.get_repo", <<>>) \in fail
           \/ Failure("health.topics", <<>>) \in fail
           \/ security.raised
        THEN NoHealth
        ELSE [raised |-> FALSE,
              score |-> score,
              grade |-> Grade(score),
              checks |-> HealthChecks(has_readme, has_license, has_gitignore,
                                      has_desc, has_topics, is_secure),
              security |-> security]

(***************************************************************************)
(* GitHubService.analyze_repo and its helpers                              *)
(***************************************************************************)
\* _get_languages: percentages in tenths of a percent, rounded half up ({} on
\* GithubException or when the byte counts sum to 0)
RECURSIVE SumBytes(_)
SumBytes(languages) ==
    IF languages = <<>> THEN 0 ELSE Head(languages).bytes + SumBytes(Tail(languages))

_get_languages(fail) ==
    LET total == SumBytes(repo.languages)
    IN  IF Failure("analyze.languages", <<>>) \in fail \/ total = 0 THEN <<>>
        ELSE [i \in 1..Len(repo.languages) |->
                 [lang |-> repo.languages[i].lang,
                  tenths |-> (2 * 1000 * repo.languages[i].bytes + total) \div (2 * total)]]

\* max_depth: int = 2
max_depth == 2

RECURSIVE _get_structure(_, _, _, _)
\* one pass of `for content in contents`: the item appended, and the paths
\* the recursive call requests from the accessor
ItemOf(content, depth, fail) ==
    IF content.type = "dir" /\ depth < max_depth
    THEN LET nested == _get_structure(content.kids, content.path, depth + 1, fail)
         IN  [item |-> [name |-> content.name, type |-> content.type,
                        path |-> content.path, children |-> nested.items],
              requests |-> nested.requests]
    ELSE [item |-> [name |-> content.name, type |-> content.type,
                    path |-> content.path],
          requests |-> <<>>]

\* a call of _get_structure without the depth test
GetStructureUnguarded(contents, path, depth, fail) ==
    IF Failure("analyze.dir", path) \in fail
    THEN [items |-> <<>>, requests |-> <<path>>]
    ELSE LET passes == [i \in 1..Len(contents) |-> ItemOf(contents[i], depth, fail)]
         IN  [items |-> [i \in 1..Len(contents) |-> passes[i].item],
              requests |-> <<path>>
                           \o Flatten([i \in 1..Len(contents) |-> passes[i].requests])]

\* contents is what repo.get_contents(path) lists when it does not raise;
\* requests are the paths passed to repo.get_contents, in call order
_get_structure(contents, path, depth, fail) ==
    IF depth > max_depth THEN [items |-> <<>>, requests |-> <<>>]
    ELSE IF Failure("analyze.dir", path) \in fail
    THEN [items |-> <<>>, requests |-> <<path>>]
    ELSE LET passes == [i \in 1..Len(contents) |-> ItemOf(contents[i], depth, fail)]
         IN  [items |-> [i \in 1..Len(contents) |-> passes[i].item],
              requests |-> <<path>>
                           \o Flatten([i \in 1..Len(contents) |-> passes[i].requests])]

\* s.split(sub)[0]
BeforeFirst(s, sub) ==
    IF ~Contains(sub, s) THEN s
    ELSE LET k == CHOOSE i \in 0..(Len(s) - Len(sub)) :
                      /\ \A j \in 1..Len(sub) : s[i + j] = sub[j]
                      /\ \A h \in 0..(i - 1) : \E j \in 1..Len(sub) : s[h + j] # sub[j]
         IN  SubSeq(s, 1, k)

RECURSIVE RequirementsFrom(_, _)
\* for line in lines[i..]
RequirementsFrom(lines, i) ==
    IF i > Len(lines) THEN <<>>
    ELSE LET line == Strip(lines[i])
             pkg == BeforeFirst(BeforeFirst(BeforeFirst(BeforeFirst(
                        line, <<"=","=">>), <<">","=">>), <<"<","=">>), <<"[">>)
         IN  (IF line # <<>> /\ line[1] # "#" THEN <<Strip(pkg)>> ELSE <<>>)
             \o RequirementsFrom(lines, i + 1)

_parse_requirements_txt(content) == RequirementsFrom(Split(Strip(content), "\n"), 1)

RequirementsTxt == <<"r","e","q","u","i","r","e","m","e","n","t","s",".","t","x","t">>

RECURSIVE PipfileFrom(_, _, _)
\* for line in lines[i..], with the flag in_packages
PipfileFrom(lines, i, in_packages) ==
    IF i > Len(lines) THEN <<>>
    ELSE LET line == lines[i]
             pkg == StripChars(Strip(Split(line, "=")[1]), {"\""})
         IN  IF Contains(<<"[","p","a","c","k","a","g","e","s","]">>, line) THEN PipfileFrom(lines, i + 1, TRUE)
             ELSE IF in_packages /\ StartsWith(line, <<"[">>) THEN <<>>
             ELSE (IF in_packages /\ Contains(<<"=">>, line) /\ pkg # <<>>
                   THEN <<pkg>> ELSE <<>>)
                  \o PipfileFrom(lines, i + 1, in_packages)

_parse_pipfile(content) == PipfileFrom(Split(content, "\n"), 1, FALSE)

RECURSIVE PyprojectFrom(_, _, _)
\* for line in lines[i..], with the flag in_deps
PyprojectFrom(lines, i, in_deps) ==
    IF i > Len(lines) THEN <<>>
    ELSE LET line == lines[i]
             pkg == BeforeFirst(BeforeFirst(Split(line, "\"")[2], <<">","=">>), <<"=","=">>)
         IN  IF Contains(<<"d","e","p","e","n","d","e","n","c","i","e","s">>, line) /\ Contains(<<"=">>, line)
             THEN PyprojectFrom(lines, i + 1, TRUE)
             ELSE IF in_deps /\ StartsWith(Strip(line), <<"]">>) THEN <<>>
             ELSE (IF in_deps /\ Contains(<<"\"">>, line) THEN <<pkg>> ELSE <<>>)
                  \o PyprojectFrom(lines, i + 1, in_deps)

_parse_pyproject(content) == PyprojectFrom(Split(content, "\n"), 1, FALSE)

RECURSIVE CargoFrom(_, _, _)
\* for line in lines[i..], with the flag in_deps
CargoFrom(lines, i, in_deps) ==
    IF i > Len(lines) THEN <<>>
    ELSE LET line == lines[i]
             pkg == Strip(Split(line, "=")[1])
         IN  IF Contains(<<"[","d","e","p","e","n","d","e","n","c","i","e","s","]">>, line) THEN CargoFrom(lines, i + 1, TRUE)
             ELSE IF in_deps /\ StartsWith(line, <<"[">>) THEN <<>>
             ELSE (IF in_deps /\ Contains(<<"=">>, line) /\ pkg # <<>>
                   THEN <<pkg>> ELSE <<>>)
                  \o CargoFrom(lines, i + 1, in_deps)

_parse_cargo_toml(content) == CargoFrom(Split(content, "\n"), 1, FALSE)

RECURSIVE GoModFrom(_, _)
\* for line in lines[i..]: the line is stripped before it is tested
GoModFrom(lines, i) ==
    IF i > Len(lines) THEN <<>>
    ELSE LET line == Strip(lines[i])
             parts == SplitWhitespace(Strip(Replace(line, <<"r","e","q","u","i","r","e">>, <<>>)))
         IN  (IF /\ StartsWith(line, <<"r","e","q","u","i","r","e">>) \/ Contains(<<"\t">>, line)
                 /\ parts # <<>>
                 /\ Contains(<<"/">>, parts[1])
              THEN <<parts[1]>> ELSE <<>>)
             \o GoModFrom(lines, i + 1)

_parse_go_mod(content) == GoModFrom(Split(content, "\n"), 1)

RECURSIVE GemfileFrom(_, _)
\* for line in lines[i..]
GemfileFrom(lines, i) ==
    IF i > Len(lines) THEN <<>>
    ELSE LET line == lines[i]
             parts == Split(line, "'")
         IN  (IF StartsWith(Strip(line), <<"g","e","m"," ">>) /\ Len(parts) >= 2
              THEN <<parts[2]>> ELSE <<>>)
             \o GemfileFrom(lines, i + 1)

_parse_gemfile(content) == GemfileFrom(Split(content, "\n"), 1)

\* the manifests _get_dependencies looks for, in the order of package_files
package_files == <<
    <<"p","a","c","k","a","g","e",".","j","s","o","n">>, RequirementsTxt, <<"P","i","p","f","i","l","e">>, <<"p","y","p","r","o","j","e","c","t",".","t","o","m","l">>,
    <<"C","a","r","g","o",".","t","o","m","l">>, <<"g","o",".","m","o","d">>, <<"G","e","m","f","i","l","e">>, <<"p","o","m",".","x","m","l">>, <<"c","o","m","p","o","s","e","r",".","j","s","o","n">> >>

RECURSIVE ArtifactsFrom(_)
\* re.findall(r'<artifactId>([^<]+)</artifactId>', content), scanning content
\* from its first character
ArtifactsFrom(content) ==
    IF content = <<>> THEN <<>>
    ELSE IF ~StartsWith(content, <<"<","a","r","t","i","f","a","c","t","I","d",">">>) THEN ArtifactsFrom(Tail(content))
    ELSE LET rest == SubSeq(content, Len(<<"<","a","r","t","i","f","a","c","t","I","d",">">>) + 1, Len(content))
             group == BeforeFirst(rest, <<"<">>)
             after == SubSeq(rest, Len(group) + 1, Len(rest))
         IN  IF group # <<>> /\ StartsWith(after, <<"<","/","a","r","t","i","f","a","c","t","I","d",">">>)
             THEN <<group>>
                  \o ArtifactsFrom(SubSeq(after, Len(<<"<","/","a","r","t","i","f","a","c","t","I","d",">">>) + 1, Len(after)))
             ELSE ArtifactsFrom(Tail(content))

\* artifacts[:20]
_parse_pom_xml(content) == Take(ArtifactsFrom(content), 20)

\* JSON values, as json.loads returns them: an object keeps its members in
\* document order; every other kind has none
JObject(members) == [kind |-> "object", members |-> members]
JOther(kind) == [kind |-> kind, members |-> <<>>]
Member(key, value) == [key |-> key, value |-> value]

\* the JSON documents of the model and what json.loads makes of them
PackageJsonFull == <<"{","\"","d","e","p","e","n","d","e","n","c","i","e","s","\"",":","{","\"","r","e","a","c","t","\"",":","\"","1","8","\"","}",",","\"","s","c","r","i","p","t","s","\"",":","{","\"","b","u","i","l","d","\"",":","\"","x","\"","}","}">>
PackageJsonBare == <<"{","\"","n","a","m","e","\"",":","\"","a","p","p","\"","}">>
PackageJsonTruncated == <<"{","\"","d","e","p","e","n","d","e","n","c","i","e","s","\"",":">>
PackageJsonArray == <<"[","1",",","2","]">>
PackageJsonListGroup == <<"{","\"","d","e","p","e","n","d","e","n","c","i","e","s","\"",":","[","\"","r","e","a","c","t","\"","]","}">>
ComposerJsonFull == <<"{","\"","r","e","q","u","i","r","e","\"",":","{","\"","p","h","p","\"",":","\"",">","=","8","\"","}","}">>
ComposerJsonNullGroup == <<"{","\"","r","e","q","u","i","r","e","\"",":","n","u","l","l","}">>

JsonDocuments ==
    << [text |-> PackageJsonFull,
        value |-> JObject(<< Member(<<"d","e","p","e","n","d","e","n","c","i","e","s">>,
                                    JObject(<< Member(<<"r","e","a","c","t">>, JOther("string")) >>)),
                             Member(<<"s","c","r","i","p","t","s">>,
                                    JObject(<< Member(<<"b","u","i","l","d">>, JOther("string")) >>)) >>)],
       [text |-> PackageJsonBare,
        value |-> JObject(<< Member(<<"n","a","m","e">>, JOther("string")) >>)],
       [text |-> PackageJsonArray, value |-> JOther("array")],
       [text |-> PackageJsonListGroup,
        value |-> JObject(<< Member(<<"d","e","p","e","n","d","e","n","c","i","e","s">>, JOther("array")) >>)],
       [text |-> ComposerJsonFull,
        value |-> JObject(<< Member(<<"r","e","q","u","i","r","e">>,
                                    JObject(<< Member(<<"p","h","p">>, JOther("string")) >>)) >>)],
       [text |-> ComposerJsonNullGroup,
        value |-> JObject(<< Member(<<"r","e","q","u","i","r","e">>, JOther("null")) >>)] >>

\* json.loads(content); kind "invalid" stands for json.JSONDecodeError
json_loads(content) ==
    IF \E i \in 1..Len(JsonDocuments) : JsonDocuments[i].text = content
    THEN JsonDocuments[CHOOSE i \in 1..Len(JsonDocuments) :
                           JsonDocuments[i].text = content].value
    ELSE JOther("invalid")

\* list(data.get(key, {}).keys()); raised: data has no get (it is not a
\* dict), or the member has no keys (it is not a dict): AttributeError
GroupKeys(data, key) ==
    IF data.kind # "object" THEN [raised |-> TRUE, keys |-> <<>>]
    ELSE IF \A i \in 1..Len(data.members) : data.members[i].key # key
    THEN [raised |-> FALSE, keys |-> <<>>]
    ELSE LET group == data.members[CHOOSE i \in 1..Len(data.members) :
                                       data.members[i].key = key].value
         IN  IF group.kind # "object" THEN [raised |-> TRUE, keys |-> <<>>]
             ELSE [raised |-> FALSE,
                   keys |-> [i \in 1..Len(group.members) |-> group.members[i].key]]

\* what a parser hands to _get_dependencies: raised (an exception other than
\* the ones the parser catches), truthy (`if parsed:`), and the value
Parsed(value) == [raised |-> FALSE, truthy |-> value # <<>>, parsed |-> value]
ParserRaised == [raised |-> TRUE, truthy |-> FALSE, parsed |-> <<>>]

\* the dict of key lists built over the groups, for the JSON manifests
ParseGroups(content, groups) ==
    LET data == json_loads(content)
    IN  IF data.kind = "invalid" THEN Parsed(<<>>)
        ELSE IF \E i \in 1..Len(groups) : GroupKeys(data, groups[i]).raised
        THEN ParserRaised
        ELSE [raised |-> FALSE, truthy |-> TRUE,
              parsed |-> [i \in 1..Len(groups) |->
                             [group |-> groups[i], keys |-> GroupKeys(data, groups[i]).keys]]]

_parse_package_json(content) ==
    ParseGroups(content, << <<"d","e","p","e","n","d","e","n","c","i","e","s">>, <<"d","e","v","D","e","p","e","n","d","e","n","c","i","e","s">>, <<"s","c","r","i","p","t","s">> >>)

_parse_composer_json(content) ==
    ParseGroups(content, << <<"r","e","q","u","i","r","e">>, <<"r","e","q","u","i","r","e","-","d","e","v">> >>)

\* parser(decoded)
ParseManifest(filename, decoded) ==
    CASE filename = <<"p","a","c","k","a","g","e",".","j","s","o","n">> -> _parse_package_json(decoded)
      [] filename = RequirementsTxt -> Parsed(_parse_requirements_txt(decoded))
      [] filename = <<"P","i","p","f","i","l","e">> -> Parsed(_parse_pipfile(decoded))
      [] filename = <<"p","y","p","r","o","j","e","c","t",".","t","o","m","l">> -> Parsed(_parse_pyproject(decoded))
      [] filename = <<"C","a","r","g","o",".","t","o","m","l">> -> Parsed(_parse_cargo_toml(decoded))
      [] filename = <<"g","o",".","m","o","d">> -> Parsed(_parse_go_mod(decoded))
      [] filename = <<"G","e","m","f","i","l","e">> -> Parsed(_parse_gemfile(decoded))
      [] filename = <<"p","o","m",".","x","m","l">> -> Parsed(_parse_pom_xml(decoded))
      [] filename = <<"c","o","m","p","o","s","e","r",".","j","s","o","n">> -> _parse_composer_json(decoded)

RECURSIVE DependenciesFrom(_, _)
\* for filename, parser in package_files[i..]; raised: the decoding raised
\* UnicodeDecodeError or the parser raised AttributeError, which
\* `except GithubException` does not catch
DependenciesFrom(i, fail) ==
    IF i > Len(package_files) THEN [raised |-> FALSE, deps |-> <<>>]
    ELSE LET filename == package_files[i]
             got == GetFile("analyze.manifest", filename, fail)
             rest == DependenciesFrom(i + 1, fail)
         IN  IF ~got.ok THEN rest
             ELSE IF ~got.content.utf8 THEN [raised |-> TRUE, deps |-> <<>>]
             ELSE LET result == ParseManifest(filename, got.content.text)
                  IN  IF result.raised \/ rest.raised THEN [raised |-> TRUE, deps |-> <<>>]
                      ELSE IF result.truthy
                      THEN [raised |-> FALSE,
                            deps |-> <<[file |-> filename, parsed |-> result.parsed]>>
                                     \o rest.deps]
                      ELSE rest

_get_dependencies(fail) == DependenciesFrom(1, fail)

\* _get_readme_content: None on GithubException; the decoding may raise
_get_readme_content(fail) ==
    IF ~_has_readme("analyze.readme_content", fail)
    THEN [raised |-> FALSE, present |-> FALSE, text |-> <<>>]
    ELSE IF ~repo.readme.utf8
    THEN [raised |-> TRUE, present |-> FALSE, text |-> <<>>]
    ELSE [raised |-> FALSE, present |-> TRUE, text |-> repo.readme.text]

important_files == <<
    <<"p","a","c","k","a","g","e",".","j","s","o","n">>, <<"r","e","q","u","i","r","e","m","e","n","t","s",".","t","x","t">>, <<"C","a","r","g","o",".","t","o","m","l">>, <<"g","o",".","m","o","d">>,
    <<"D","o","c","k","e","r","f","i","l","e">>, <<"d","o","c","k","e","r","-","c","o","m","p","o","s","e",".","y","m","l">>, <<".","g","i","t","h","u","b","/","w","o","r","k","f","l","o","w","s">>,
    <<"M","a","k","e","f","i","l","e">>, <<"s","e","t","u","p",".","p","y">>, <<"s","e","t","u","p",".","c","f","g">>, <<"n","e","x","t",".","c","o","n","f","i","g",".","j","s">>,
    <<"v","i","t","e",".","c","o","n","f","i","g",".","j","s">>, <<"w","e","b","p","a","c","k",".","c","o","n","f","i","g",".","j","s">>, <<"t","s","c","o","n","f","i","g",".","j","s","o","n">>,
    <<"t","a","i","l","w","i","n","d",".","c","o","n","f","i","g",".","j","s">>, <<".","e","s","l","i","n","t","r","c">>, <<"j","e","s","t",".","c","o","n","f","i","g",".","j","s">> >>

RECURSIVE WorkflowsFrom(_, _)
\* for gc in github_contents[i..]
WorkflowsFrom(github_contents, i) ==
    IF i > Len(github_contents) THEN <<>>
    ELSE (IF github_contents[i].name = <<"w","o","r","k","f","l","o","w","s">>
          THEN << <<".","g","i","t","h","u","b","/","w","o","r","k","f","l","o","w","s">> >> ELSE <<>>)
         \o WorkflowsFrom(github_contents, i + 1)

RECURSIVE KeyFilesFrom(_, _, _)
\* for content in contents[i..]
KeyFilesFrom(contents, i, fail) ==
    IF i > Len(contents) THEN <<>>
    ELSE LET content == contents[i]
         IN  (IF InList(content.name, important_files) THEN <<content.name>> ELSE <<>>)
             \o (IF /\ content.type = "dir"
                    /\ content.name = <<".","g","i","t","h","u","b">>
                    /\ Failure("analyze.key_github", <<>>) \notin fail
                 THEN WorkflowsFrom(content.kids, 1) ELSE <<>>)
             \o KeyFilesFrom(contents, i + 1, fail)

_identify_key_files(fail) ==
    IF Failure("analyze.key_root", <<>>) \in fail THEN <<>>
    ELSE KeyFilesFrom(repo.tree, 1, fail)

NoAnalysis ==
    [raised |-> TRUE, description |-> <<>>, languages |-> <<>>, topics |-> <<>>,
     license |-> FALSE, structure |-> <<>>, dependencies |-> <<>>,
     has_readme |-> FALSE,
     existing_readme |-> [raised |-> FALSE, present |-> FALSE, text |-> <<>>],
     key_files |-> <<>>]

\* the result of analyze_repo; raised = TRUE: the call ends in an exception
\* (get_repo, the unguarded repo.get_topics(), or a decoding error)
analyze_repo(fail) ==
    LET dependencies == _get_dependencies(fail)
        existing_readme == _get_readme_content(fail)
    IN  IF \/ Failure("analyze.get_repo", <<>>) \in fail
           \/ Failure("analyze.topics", <<>>) \in fail
           \/ dependencies.raised
           \/ existing_readme.raised
        THEN NoAnalysis
        ELSE [raised |-> FALSE,
              description |-> repo.description,
              languages |-> _get_languages(fail),
              topics |-> repo.topics,
              license |-> repo.license,
              structure |-> _get_structure(repo.tree, <<>>, 0, fail).items,
              dependencies |-> dependencies.deps,
              has_readme |-> _has_readme("analyze.has_readme", fail),
              existing_readme |-> existing_readme,
              key_files |-> _identify_key_files(fail)]

(***************************************************************************)
(* Cache (src/api/services/cache.py).  The store maps a key to the pair    *)
(* (value, expiry); an operation is given the store and the time it reads  *)
(* and yields the store it leaves.                                         *)
(***************************************************************************)
None == "None"

Entry(value, expiry) == [value |-> value, expiry |-> expiry]

\* self._cache = {}
EmptyStore == [k \in {} |-> Entry(None, 0)]

\* del s[key]
Without(s, key) == [k \in DOMAIN s \ {key} |-> s[k]]

\* s[key] = entry
With(s, key, entry) == [k \in DOMAIN s \cup {key} |-> IF k = key THEN entry ELSE s[k]]

\* get with the test `time.time() <= expiry`
GetInclusive(s, key, t) ==
    IF key \in DOMAIN s
    THEN IF t <= s[key].expiry
         THEN [store |-> s, ret |-> s[key].value]
         ELSE [store |-> Without(s, key), ret |-> None]
    ELSE [store |-> s, ret |-> None]

\* Cache.get(key) at time t: the store it leaves and the value it returns
get(s, key, t) ==
    IF key \in DOMAIN s
    THEN IF t < s[key].expiry
         THEN [store |-> s, ret |-> s[key].value]
         ELSE [store |-> Without(s, key), ret |-> None]
    ELSE [store |-> s, ret |-> None]

\* Cache.set(key, value, ttl) at time t
set(s, key, value, ttl, t) == With(s, key, Entry(value, t + ttl))

\* Cache.delete(key)
delete(s, key) == IF key \in DOMAIN s THEN Without(s, key) ELSE s

\* clear_pattern with the test `k.startswith(pattern)`
ClearPrefix(s, pattern) ==
    [k \in { x \in DOMAIN s : ~StartsWith(x, pattern) } |-> s[k]]

\* Cache.clear_pattern(pattern)
clear_pattern(s, pattern) ==
    [k \in { x \in DOMAIN s : ~Contains(pattern, x) } |-> s[k]]

\* Cache.clear_all()
clear_all(s) == EmptyStore

(***************************************************************************)
(* The repositories the calls are run against.                             *)
(***************************************************************************)
\* lines of a scanned file
LineSecret == <<"A","P","I","_","K","E","Y","=","s","k","-","a","b","c","1","2","3">>
LinePlaceholder == <<"A","P","I","_","K","E","Y","=","Y","O","U","R","_","A","P","I","_","K","E","Y">>
LineValueOnly == <<"T","O","K","E","N","=","s","k","-","a","b","c">>
LineQuotedPlaceholder == <<"p","a","s","s","w","o","r","d"," ","="," ","\"","x","x","x","\"">>
LineQuotedSecret == <<"P","A","S","S","W","O","R","D","=","'","h","u","n","t","e","r","2","'">>
LineEmptyValue == <<"A","P","I","_","K","E","Y","=">>
LineNoAssignment == <<"#"," ","s","k","-"," ","k","e","y">>

Corpus ==
    { LineSecret, LinePlaceholder, LineValueOnly, LineQuotedPlaceholder,
      LineQuotedSecret, LineEmptyValue, LineNoAssignment }

Text(t) == [utf8 |-> TRUE, text |-> t]
Binary == [utf8 |-> FALSE, text |-> <<>>]

\* every text of at most MaxLines lines of the corpus
Contents ==
    { Text(Join(ls, <<"\n">>)) : ls \in UNION { [1..n -> Corpus] : n \in 0..MaxLines } }

\* .gitignore files: complete, lacking .env, upper case, empty, not UTF-8
GitignoreComplete == Text(<<".","e","n","v","\n","n","o","d","e","_","m","o","d","u","l","e","s","\n","_","_","p","y","c","a","c","h","e","_","_","\n",".","v","e","n","v","\n","*",".","p","y","c">>)
GitignoreNoEnv == Text(<<"n","o","d","e","_","m","o","d","u","l","e","s","\n","_","_","p","y","c","a","c","h","e","_","_","\n","v","e","n","v","\n","*",".","p","y","c">>)
GitignoreUpper == Text(<<".","E","N","V","\n","N","o","d","e","_","M","o","d","u","l","e","s">>)
GitignoreEmpty == Text(<<>>)

Gitignores == { GitignoreComplete, GitignoreNoEnv, GitignoreUpper, GitignoreEmpty, Binary }

Root == <<>>
SrcDir == <<"s","r","c">>
EnvName == <<".","e","n","v">>
AppConfigName == <<"a","p","p",".","c","o","n","f","i","g">>

NoReadme == [present |-> FALSE, utf8 |-> TRUE, text |-> <<>>]
TextReadme == [present |-> TRUE, utf8 |-> TRUE, text |-> <<"#"," ","a","p","p">>]
BinaryReadme == [present |-> TRUE, utf8 |-> FALSE, text |-> <<>>]

BareMeta ==
    [description |-> <<>>, license |-> FALSE, topics |-> <<>>,
     pushed |-> [known |-> FALSE, days |-> 0],
     readme |-> NoReadme,
     languages |-> <<>>]

WithTree(meta, tree) ==
    [description |-> meta.description, license |-> meta.license,
     topics |-> meta.topics, pushed |-> meta.pushed, readme |-> meta.readme,
     languages |-> meta.languages, tree |-> tree]

\* a tree with one enumerated scan candidate beside a key file, a nested
\* configuration file and an excluded directory
RichTree(name, content) ==
    << File(Root, name, content),
       File(Root, <<"i","d","_","r","s","a">>, Text(<<"k","e","y">>)),
       Dir(Root, SrcDir,
           << File(SrcDir, <<"c","o","n","f","i","g",".","j","s","o","n">>, Text(LineSecret)),
              File(SrcDir, <<"m","a","i","n",".","p","y">>, Text(<<"x","=","1">>)) >>),
       Dir(Root, <<"n","o","d","e","_","m","o","d","u","l","e","s">>,
           << File(<<"n","o","d","e","_","m","o","d","u","l","e","s">>, EnvName, Text(LineSecret)) >>) >>

\* small trees around a .gitignore
PlainTree == << File(Root, <<"m","a","i","n",".","p","y">>, Text(<<"x","=","1">>)) >>
LeakyTree == << File(Root, AppConfigName, Text(LineQuotedSecret)) >>

WithGitignore(tree, g) == << File(Root, GitignorePath, g) >> \o tree

ScanTrees ==
    { RichTree(name, c) : name \in {EnvName, AppConfigName}, c \in Contents \cup {Binary} }
    \cup { WithGitignore(t, g) : t \in {PlainTree, LeakyTree}, g \in Gitignores }
    \cup { PlainTree, LeakyTree }

ScanRepos == { WithTree(BareMeta, t) : t \in ScanTrees }

\* trees of get_repo_health and analyze_repo: clean, one secret, neglected
CleanTree ==
    << File(Root, GitignorePath, GitignoreComplete),
       File(Root, RequirementsTxt, Text(<<"f","l","a","s","k","=","=","2",".","0",".","1","\n","#"," ","d","e","v","\n","p","y","t","e","s","t",">","=","7">>)),
       Dir(Root, <<".","g","i","t","h","u","b">>, << Dir(<<".","g","i","t","h","u","b">>, <<"w","o","r","k","f","l","o","w","s">>, <<>>) >>),
       Dir(Root, SrcDir,
           << Dir(SrcDir, <<"p","k","g">>,
                  << Dir(<<"s","r","c","/","p","k","g">>, <<"s","u","b">>,
                         << File(<<"s","r","c","/","p","k","g","/","s","u","b">>, <<"a",".","p","y">>, Text(<<>>)) >>) >>) >>) >>

OneSecretTree ==
    << File(Root, GitignorePath, GitignoreNoEnv),
       File(Root, AppConfigName, Text(LineQuotedSecret)) >>

NeglectedTree ==
    << File(Root, EnvName, Text(LineSecret)),
       File(Root, RequirementsTxt, Binary) >>

HealthTrees == { CleanTree, OneSecretTree, NeglectedTree }

Pushes ==
    { [known |-> FALSE, days |-> 0] }
    \cup { [known |-> TRUE, days |-> d] : d \in {1, ActiveDays - 1, ActiveDays, 200} }

HealthMetas ==
    [description : {<<>>, <<"t","o","o","l">>},
     license : BOOLEAN,
     topics : {<<>>, << <<"c","l","i">> >>},
     pushed : Pushes,
     readme : {NoReadme, TextReadme},
     languages : { << [lang |-> "Python", bytes |-> 700], [lang |-> "Shell", bytes |-> 300] >> }]

\* a repository whose README does not decode
BinaryReadmeMeta ==
    [description |-> <<>>, license |-> FALSE, topics |-> <<>>,
     pushed |-> [known |-> TRUE, days |-> 1], readme |-> BinaryReadme,
     languages |-> <<>>]

HealthRepos ==
    { WithTree(m, t) : m \in HealthMetas \cup {BinaryReadmeMeta}, t \in HealthTrees }

(***************************************************************************)
(* The manifests the dependency parsers are run against: one or two lines  *)
(* of a corpus per line-based format, and whole documents for the others.  *)
(***************************************************************************)
\* the texts of one or two lines of a corpus
OneOrTwo(corpus) ==
    corpus \cup { a \o <<"\n">> \o b : a \in corpus, b \in corpus }

RequirementLines ==
    { <<"f","l","a","s","k","=","=","2",".","0",".","1">>, <<"p","y","t","e","s","t",">","=","7">>, <<"r","e","q","u","e","s","t","s","<","=","2",".","0">>, <<"d","j","a","n","g","o","~","=","4",".","2">>,
      <<"u","v","i","c","o","r","n","[","s","t","a","n","d","a","r","d","]">>, <<"#"," ","d","e","v">> }

PyprojectEntries ==
    { <<" "," "," "," ","\"","f","l","a","s","k","=","=","2",".","0",".","1","\"",",">>, <<" "," "," "," ","\"","h","t","t","p","x",">","=","0",".","2","\"",",">>, <<" "," "," "," ","\"","n","u","m","p","y","<","=","1",".","2","6","\"",",">>,
      <<" "," "," "," ","'","c","l","i","c","k","'",",">> }

\* a PEP 621 table around the entries
Pyproject(entries) ==
    <<"[","p","r","o","j","e","c","t","]","\n","d","e","p","e","n","d","e","n","c","i","e","s"," ","="," ","[","\n">> \o entries \o <<"\n","]","\n">>

GoModLines ==
    { <<"m","o","d","u","l","e"," ","e","x","a","m","p","l","e",".","c","o","m","/","m">>, <<"r","e","q","u","i","r","e"," ","g","i","t","h","u","b",".","c","o","m","/","a","/","b"," ","v","1",".","0",".","0">>, <<"r","e","q","u","i","r","e"," ","(">>,
      <<"\t","g","i","t","h","u","b",".","c","o","m","/","c","/","d"," ","v","1",".","2",".","3">>, <<"\t","g","i","t","h","u","b",".","c","o","m","/","e","/","f","\t","v","0",".","1",".","0">>, <<")">> }

PipfileText == <<"[","p","a","c","k","a","g","e","s","]","\n","f","l","a","s","k"," ","="," ","\"","*","\"","\n","\"","r","i","c","h","\""," ","="," ","\"","*","\"","\n","[","d","e","v","-","p","a","c","k","a","g","e","s","]","\n","p","y","t","e","s","t"," ","="," ","\"","*","\"">>
CargoText == <<"[","p","a","c","k","a","g","e","]","\n","n","a","m","e"," ","="," ","\"","a","p","p","\"","\n","[","d","e","p","e","n","d","e","n","c","i","e","s","]","\n","s","e","r","d","e"," ","="," ","\"","1","\"","\n","\n","[","f","e","a","t","u","r","e","s","]","\n","x"," ","="," ","[","]">>
GemfileText == <<"s","o","u","r","c","e"," ","'","h","t","t","p","s",":","/","/","r","u","b","y","g","e","m","s",".","o","r","g","'","\n","g","e","m"," ","'","r","a","i","l","s","'",","," ","'","7",".","0","'","\n"," "," ","g","e","m"," ","\"","p","u","m","a","\"">>
PomText ==
    <<"<","a","r","t","i","f","a","c","t","I","d",">","a","p","p","<","/","a","r","t","i","f","a","c","t","I","d",">","<","d","e","p","e","n","d","e","n","c","y",">","<","a","r","t","i","f","a","c","t","I","d",">","j","u","n","i","t","<","/","a","r","t","i","f","a","c","t","I","d",">","<","a","r","t","i","f","a","c","t","I","d",">","<","/","a","r","t","i","f","a","c","t","I","d",">">>

\* [name, content] of the one manifest of a repository
Manifest(name, content) == [name |-> name, content |-> content]

Manifests ==
    { Manifest(RequirementsTxt, Text(t)) : t \in OneOrTwo(RequirementLines) }
    \cup { Manifest(<<"p","y","p","r","o","j","e","c","t",".","t","o","m","l">>, Text(Pyproject(t))) : t \in OneOrTwo(PyprojectEntries) }
    \cup { Manifest(<<"g","o",".","m","o","d">>, Text(t)) : t \in OneOrTwo(GoModLines) }
    \cup { Manifest(<<"p","a","c","k","a","g","e",".","j","s","o","n">>, Text(t)) :
              t \in { PackageJsonFull, PackageJsonBare, PackageJsonTruncated,
                      PackageJsonArray, PackageJsonListGroup, <<>> } }
    \cup { Manifest(<<"c","o","m","p","o","s","e","r",".","j","s","o","n">>, Text(t)) :
              t \in { ComposerJsonFull, ComposerJsonNullGroup, PackageJsonTruncated } }
    \cup { Manifest(<<"P","i","p","f","i","l","e">>, Text(PipfileText)), Manifest(<<"C","a","r","g","o",".","t","o","m","l">>, Text(CargoText)),
           Manifest(<<"G","e","m","f","i","l","e">>, Text(GemfileText)), Manifest(<<"p","o","m",".","x","m","l">>, Text(PomText)) }
    \cup { Manifest(package_files[i], Binary) : i \in 1..Len(package_files) }

\* one manifest at the root; and a requirements list beside a package.json
\* that is a JSON array
ParseTrees ==
    { << File(Root, m.name, m.content) >> : m \in Manifests }
    \cup { << File(Root, RequirementsTxt, Text(<<"f","l","a","s","k","=","=","2",".","0",".","1">>)),
              File(Root, <<"p","a","c","k","a","g","e",".","j","s","o","n">>, Text(PackageJsonArray)) >> }

ParseRepos == { WithTree(BareMeta, t) : t \in ParseTrees }

(***************************************************************************)
(* The accessor calls that can fail during a service call.                 *)
(***************************************************************************)
RECURSIVE Walk(_)
\* the entries _get_all_files and _get_structure can reach
Walk(entries) ==
    UNION { {entries[i]} \cup
            (IF entries[i].type = "dir" /\ ~InList(entries[i].name, excluded_dirs)
             THEN Walk(entries[i].kids) ELSE {}) : i \in 1..Len(entries) }

ScanSites ==
    { Failure("scan.get_repo", <<>>), Failure("scan.root", <<>>),
      Failure("scan.gitignore", GitignorePath) }
    \cup { Failure("scan.file", e.path) :
             e \in { x \in Walk(repo.tree) : x.type = "file" /\ IsScanCandidate(x.name) } }
    \cup { Failure("scan.dir", e.path) :
             e \in { x \in Walk(repo.tree) :
                        x.type = "dir" /\ ~InList(x.name, excluded_dirs) } }

HealthSites ==
    { Failure("health.get_repo", <<>>), Failure("health.readme", <<>>),
      Failure("health.gitignore", GitignorePath), Failure("health.topics", <<>>) }
    \cup ScanSites

AnalyzeSites ==
    { Failure("analyze.get_repo", <<>>), Failure("analyze.languages", <<>>),
      Failure("analyze.topics", <<>>), Failure("analyze.has_readme", <<>>),
      Failure("analyze.readme_content", <<>>), Failure("analyze.key_root", <<>>),
      Failure("analyze.key_github", <<>>), Failure("analyze.dir", <<>>) }
    \cup { Failure("analyze.manifest", package_files[i]) :
             i \in { k \in 1..Len(package_files) : Lookup(repo.tree, package_files[k]) # {} } }
    \cup { Failure("analyze.dir", e.path) :
             e \in { x \in Walk(repo.tree) :
                       x.type = "dir" /\ Len(Split(x.path, "/")) <= max_depth } }

\* at most MaxFail of the calls fail
Failures(sites) == { f \in SUBSET sites : Cardinality(f) <= MaxFail }

(***************************************************************************)
(* The trees the walkers are run against: a wide directory around the cap  *)
(* of the flat listing, directories four levels deep, and excluded         *)
(* directories at the root and nested.                                     *)
(***************************************************************************)
\* files of the wide directory beyond the cap of the flat listing
MaxExtraFiles == 2
\* largest depth argument a call of _get_structure is given
MaxStartDepth == 3

Digits == <<"0","1","2","3","4","5","6","7","8","9">>

\* the name of the k-th file of the wide directory
NumName(k) ==
    << "f", Digits[((k \div 100) % 10) + 1], Digits[((k \div 10) % 10) + 1],
       Digits[(k % 10) + 1] >>

WideFiles(dir, n) == [k \in 1..n |-> File(dir, NumName(k), NoContent)]

DeepDir ==
    Dir(SrcDir, <<"a">>,
        << Dir(<<"s","r","c","/","a">>, <<"b">>,
               << Dir(<<"s","r","c","/","a","/","b">>, <<"c">>,
                      << File(<<"s","r","c","/","a","/","b","/","c">>, <<"d","e","e","p",".","p","y">>, NoContent) >>),
                  File(<<"s","r","c","/","a","/","b">>, <<"m","i","d",".","p","y">>, NoContent) >>) >>)

LibDir ==
    Dir(Root, <<"l","i","b">>,
        << Dir(<<"l","i","b">>, <<"v","e","n","d","o","r">>, << File(<<"l","i","b","/","v","e","n","d","o","r">>, <<"v",".","p","y">>, NoContent) >>),
           Dir(<<"l","i","b">>, <<"_","_","p","y","c","a","c","h","e","_","_">>,
               << File(<<"l","i","b","/","_","_","p","y","c","a","c","h","e","_","_">>, <<"c",".","p","y","c">>, NoContent) >>),
           File(<<"l","i","b">>, <<"o","k",".","p","y">>, NoContent) >>)

\* n files in src beside a nested node_modules and the deep directory
WideTree(n) ==
    << Dir(Root, SrcDir,
           WideFiles(SrcDir, n)
           \o << Dir(SrcDir, <<"n","o","d","e","_","m","o","d","u","l","e","s">>,
                     << File(<<"s","r","c","/","n","o","d","e","_","m","o","d","u","l","e","s">>, <<"x",".","j","s">>, NoContent) >>),
                 DeepDir >>),
       File(Root, <<"m","a","i","n",".","p","y">>, NoContent),
       Dir(Root, <<".","g","i","t">>, << File(<<".","g","i","t">>, <<"c","o","n","f","i","g">>, NoContent) >>),
       LibDir >>

WideSizes == {0, 1} \cup ((MaxFilesListed - 5)..(MaxFilesListed + MaxExtraFiles))

TreeRepos == { WithTree(BareMeta, WideTree(n)) : n \in WideSizes }

\* the directories below a listing, excluded ones included
RECURSIVE DirsOf(_)
DirsOf(entries) ==
    UNION { IF entries[i].type = "dir"
            THEN {entries[i]} \cup DirsOf(entries[i].kids) ELSE {} : i \in 1..Len(entries) }

\* the listings _get_all_files requests from the accessor
FlatSites ==
    { Failure("scan.dir", e.path) : e \in { x \in Walk(repo.tree) : x.type = "dir" } }

\* what repo.get_contents(path) lists
ContentsAt(path) ==
    IF path = Root THEN repo.tree ELSE (CHOOSE e \in Lookup(repo.tree, path) : TRUE).kids

\* the listings _get_structure(path, depth) requests from the accessor
StructureSites(path, depth) ==
    LET r == _get_structure(ContentsAt(path), path, depth, {})
    IN  { Failure("analyze.dir", r.requests[i]) : i \in 1..Len(r.requests) }

(***************************************************************************)
(* The state machine: one service call at a time, returned to the caller.  *)
(***************************************************************************)
Idle ==
    [op |-> "none", status |-> "idle", fail |-> {},
     security |-> NoSecurity, health |-> NoHealth, analysis |-> NoAnalysis]

Outcome(raised) == IF raised THEN "raised" ELSE "returned"

ScanSecurity ==
    /\ call.status = "idle"
    /\ \E fail \in Failures(ScanSites) :
         LET r == scan_security(fail)
         IN  call' = [op |-> "scan_security", status |-> Outcome(r.raised), fail |-> fail,
                      security |-> r, health |-> NoHealth, analysis |-> NoAnalysis]
    /\ UNCHANGED <<repo, walk, cacheVars>>

GetRepoHealth ==
    /\ call.status = "idle"
    /\ \E fail \in Failures(HealthSites) :
         LET r == get_repo_health(fail)
         IN  call' = [op |-> "get_repo_health", status |-> Outcome(r.raised), fail |-> fail,
                      security |-> NoSecurity, health |-> r, analysis |-> NoAnalysis]
    /\ UNCHANGED <<repo, walk, cacheVars>>

AnalyzeRepo ==
    /\ call.status = "idle"
    /\ \E fail \in Failures(AnalyzeSites) :
         LET r == analyze_repo(fail)
         IN  call' = [op |-> "analyze_repo", status |-> Outcome(r.raised), fail |-> fail,
                      security |-> NoSecurity, health |-> NoHealth, analysis |-> r]
    /\ UNCHANGED <<repo, walk, cacheVars>>

\* the caller takes the result (or the exception)
Return ==
    /\ call.status # "idle"
    /\ call' = Idle
    /\ UNCHANGED <<repo, walk, cacheVars>>

\* the tree walkers called on their own
WalkIdle ==
    [op |-> "none", status |-> "idle", start |-> Root, depth |-> 0, fail |-> {},
     files |-> <<>>, items |-> <<>>, requests |-> <<>>]

\* files = self._get_all_files(repo, repo.get_contents(""))
GetAllFiles ==
    /\ walk.status = "idle"
    /\ \E fail \in Failures(FlatSites) :
         walk' = [op |-> "_get_all_files", status |-> "returned", start |-> Root,
                  depth |-> 0, fail |-> fail,
                  files |-> _get_all_files(repo.tree, fail),
                  items |-> <<>>, requests |-> <<>>]
    /\ UNCHANGED <<repo, call, cacheVars>>

\* structure = self._get_structure(repo, path, depth)
GetStructure ==
    /\ walk.status = "idle"
    /\ \E e \in DirsOf(repo.tree) \cup {[path |-> Root]}, depth \in 0..MaxStartDepth :
         \E fail \in Failures(StructureSites(e.path, depth)) :
             LET r == _get_structure(ContentsAt(e.path), e.path, depth, fail)
             IN  walk' = [op |-> "_get_structure", status |-> "returned",
                          start |-> e.path, depth |-> depth, fail |-> fail,
                          files |-> <<>>, items |-> r.items, requests |-> r.requests]
    /\ UNCHANGED <<repo, call, cacheVars>>

WalkReturn ==
    /\ walk.status # "idle"
    /\ walk' = WalkIdle
    /\ UNCHANGED <<repo, call, cacheVars>>

\* no cache operation has run and no thread uses the cache
CacheUnused ==
    /\ store = EmptyStore
    /\ now = 0
    /\ thread = EmptyStore
    /\ lastSet = EmptyStore

Init == repo \in HealthRepos /\ call = Idle /\ walk = WalkIdle /\ CacheUnused

Next == GetRepoHealth \/ AnalyzeRepo \/ Return

Spec == Init /\ [][Next]_vars

\* scan_security alone, over the enumerated file contents
InitScan == repo \in ScanRepos /\ call = Idle /\ walk = WalkIdle /\ CacheUnused

NextScan == ScanSecurity \/ Return

SpecScan == InitScan /\ [][NextScan]_vars

\* analyze_repo over the manifests
InitParse == repo \in ParseRepos /\ call = Idle /\ walk = WalkIdle /\ CacheUnused

NextParse == AnalyzeRepo \/ Return

SpecParse == InitParse /\ [][NextParse]_vars

(***************************************************************************)
(* The cache used by one caller: every operation runs to its end before    *)
(* the next begins, and time passes between operations.                    *)
(***************************************************************************)
\* largest value of the clock
MaxTime == 2

KeyRepos == <<"g","h",":","r","e","p","o","s">>
KeyUser == <<"g","h",":","u","s","e","r">>
Keys == { KeyRepos, KeyUser }
Values == { "v1", "v2" }
Ttls == { 1, 2 }
Patterns == { <<"g","h",":">>, <<"u","s","e","r">>, <<"g","h",":","*">>, <<>> }

NoEntry == Entry(None, 0)

\* what a thread is doing: the operation and its arguments, the statement it
\* is at, its locals (entry), its outcome (ret, error: KeyError), the store
\* and time it started from, and the entry its `del` removed
ThreadIdle ==
    [pc |-> "idle", op |-> "none", key |-> <<>>, value |-> None, ttl |-> 0,
     entry |-> NoEntry, ret |-> None, error |-> FALSE,
     before |-> EmptyStore, at |-> 0, removed |-> NoEntry]

\* the record of an operation that ran to its end
Done(op, key, value, ttl, ret) ==
    [pc |-> "done", op |-> op, key |-> key, value |-> value, ttl |-> ttl,
     entry |-> NoEntry, ret |-> ret, error |-> FALSE,
     before |-> store, at |-> now, removed |-> NoEntry]

CacheGet ==
    /\ \E key \in Keys :
         LET r == get(store, key, now)
         IN  /\ store' = r.store
             /\ thread' = [thread EXCEPT !["main"] = Done("get", key, None, 0, r.ret)]
    /\ UNCHANGED <<repo, call, walk, now, lastSet>>

CacheSet ==
    /\ \E key \in Keys, value \in Values, ttl \in Ttls :
         /\ store' = set(store, key, value, ttl, now)
         /\ thread' = [thread EXCEPT !["main"] = Done("set", key, value, ttl, None)]
         /\ lastSet' = With(lastSet, key, Entry(value, now + ttl))
    /\ UNCHANGED <<repo, call, walk, now>>

CacheDelete ==
    /\ \E key \in Keys :
         /\ store' = delete(store, key)
         /\ thread' = [thread EXCEPT !["main"] = Done("delete", key, None, 0, None)]
    /\ UNCHANGED <<repo, call, walk, now, lastSet>>

ClearPattern ==
    /\ \E pattern \in Patterns :
         /\ store' = clear_pattern(store, pattern)
         /\ thread' = [thread EXCEPT !["main"] = Done("clear_pattern", pattern, None, 0, None)]
    /\ UNCHANGED <<repo, call, walk, now, lastSet>>

ClearAll ==
    /\ store' = clear_all(store)
    /\ thread' = [thread EXCEPT !["main"] = Done("clear_all", <<>>, None, 0, None)]
    /\ UNCHANGED <<repo, call, walk, now, lastSet>>

\* time passes: nothing sweeps the store
Tick ==
    /\ now < MaxTime
    /\ now' = now + 1
    /\ UNCHANGED <<repo, call, walk, store, thread, lastSet>>

InitCache ==
    /\ repo = WithTree(BareMeta, <<>>) /\ call = Idle /\ walk = WalkIdle
    /\ store = EmptyStore /\ now = 0 /\ lastSet = EmptyStore
    /\ thread = [t \in {"main"} |-> ThreadIdle]

NextCache == CacheGet \/ CacheSet \/ CacheDelete \/ ClearPattern \/ ClearAll \/ Tick

SpecCache == InitCache /\ [][NextCache]_vars

(***************************************************************************)
(* The cache shared by two threads, on one key: a thread switch can fall   *)
(* between any two statements of an operation, and nothing locks the dict. *)
(***************************************************************************)
Threads == { "t1", "t2" }

\* the thread at statement pc with the locals of rec
At(rec, pc) == [rec EXCEPT !.pc = pc]

\* `return ret`
Returns(rec, ret) == [rec EXCEPT !.pc = "done", !.ret = ret]

\* KeyError raised by self._cache[key] or by del self._cache[key]
KeyError(rec) == [rec EXCEPT !.pc = "done", !.error = TRUE]

\* cache.get(key), cache.set(key, value, 1) or cache.delete(key) is called
Call(t) ==
    /\ thread[t].pc = "idle"
    /\ \E op \in {"get", "set", "delete"}, value \in Values :
         /\ op # "set" => value = "v1"
         /\ thread' = [thread EXCEPT ![t] =
                [ThreadIdle EXCEPT !.op = op, !.key = KeyRepos,
                                   !.value = IF op = "set" THEN value ELSE None,
                                   !.ttl = IF op = "set" THEN 1 ELSE 0,
                                   !.pc = CASE op = "get" -> "get_test"
                                            [] op = "set" -> "set_store"
                                            [] op = "delete" -> "delete_test"]]
    /\ UNCHANGED <<repo, call, walk, store, now, lastSet>>

\* if key in self._cache:
GetTest(t) ==
    /\ thread[t].pc = "get_test"
    /\ thread' = [thread EXCEPT ![t] =
           IF thread[t].key \in DOMAIN store
           THEN At(thread[t], "get_read") ELSE Returns(thread[t], None)]
    /\ UNCHANGED <<repo, call, walk, store, now, lastSet>>

\* value, expiry = self._cache[key]
GetRead(t) ==
    /\ thread[t].pc = "get_read"
    /\ thread' = [thread EXCEPT ![t] =
           IF thread[t].key \in DOMAIN store
           THEN [thread[t] EXCEPT !.pc = "get_compare", !.entry = store[thread[t].key]]
           ELSE KeyError(thread[t])]
    /\ UNCHANGED <<repo, call, walk, store, now, lastSet>>

\* if time.time() < expiry: return value
GetCompare(t) ==
    /\ thread[t].pc = "get_compare"
    /\ thread' = [thread EXCEPT ![t] =
           IF now < thread[t].entry.expiry
           THEN Returns(thread[t], thread[t].entry.value) ELSE At(thread[t], "get_del")]
    /\ UNCHANGED <<repo, call, walk, store, now, lastSet>>

\* else: del self._cache[key]; return None
GetDel(t) ==
    /\ thread[t].pc = "get_del"
    /\ IF thread[t].key \in DOMAIN store
       THEN /\ store' = Without(store, thread[t].key)
            /\ thread' = [thread EXCEPT ![t] =
                   [Returns(thread[t], None) EXCEPT !.removed = store[thread[t].key]]]
       ELSE /\ store' = store
            /\ thread' = [thread EXCEPT ![t] = KeyError(thread[t])]
    /\ UNCHANGED <<repo, call, walk, now, lastSet>>

\* self._cache[key] = (value, time.time() + ttl)
SetStore(t) ==
    /\ thread[t].pc = "set_store"
    /\ store' = set(store, thread[t].key, thread[t].value, thread[t].ttl, now)
    /\ lastSet' = With(lastSet, thread[t].key, Entry(thread[t].value, now + thread[t].ttl))
    /\ thread' = [thread EXCEPT ![t] = Returns(thread[t], None)]
    /\ UNCHANGED <<repo, call, walk, now>>

\* if key in self._cache:
DeleteTest(t) ==
    /\ thread[t].pc = "delete_test"
    /\ thread' = [thread EXCEPT ![t] =
           IF thread[t].key \in DOMAIN store
           THEN At(thread[t], "delete_del") ELSE Returns(thread[t], None)]
    /\ UNCHANGED <<repo, call, walk, store, now, lastSet>>

\* del self._cache[key]
DeleteDel(t) ==
    /\ thread[t].pc = "delete_del"
    /\ IF thread[t].key \in DOMAIN store
       THEN /\ store' = Without(store, thread[t].key)
            /\ thread' = [thread EXCEPT ![t] = Returns(thread[t], None)]
       ELSE /\ store' = store
            /\ thread' = [thread EXCEPT ![t] = KeyError(thread[t])]
    /\ UNCHANGED <<repo, call, walk, now, lastSet>>

\* the caller takes the result (or the KeyError)
Finish(t) ==
    /\ thread[t].pc = "done"
    /\ thread' = [thread EXCEPT ![t] = ThreadIdle]
    /\ UNCHANGED <<repo, call, walk, store, now, lastSet>>

InitRace ==
    /\ repo = WithTree(BareMeta, <<>>) /\ call = Idle /\ walk = WalkIdle
    /\ store = EmptyStore /\ now = 0 /\ lastSet = EmptyStore
    /\ thread = [t \in Threads |-> ThreadIdle]

NextRace ==
    \/ Tick
    \/ \E t \in Threads :
          \/ Call(t) \/ GetTest(t) \/ GetRead(t) \/ GetCompare(t) \/ GetDel(t)
          \/ SetStore(t) \/ DeleteTest(t) \/ DeleteDel(t) \/ Finish(t)

SpecRace == InitRace /\ [][NextRace]_vars

(***************************************************************************)
(* cached(ttl, key_prefix): one decorated function called by one caller,   *)
(* while time passes between its calls.                                    *)
(***************************************************************************)
\* str() of a small int
StrInt(n) == << Digits[n + 1] >>

\* str(args) of a tuple of ints: (), (1,), (1, 2)
StrArgs(args) ==
    <<"(">> \o Join([i \in 1..Len(args) |-> StrInt(args[i])], <<","," ">>)
          \o (IF Len(args) = 1 THEN <<",">> ELSE <<>>) \o <<")">>

\* str(kwargs) of a dict of ints, in the order the keywords were passed:
\* {}, {'x': 1, 'y': 2}
StrKwargs(kwargs) ==
    <<"{">> \o Join([i \in 1..Len(kwargs) |->
                     <<"'">> \o kwargs[i].name \o <<"'",":"," ">> \o StrInt(kwargs[i].value)],
                  <<","," ">>)
          \o <<"}">>

\* f"{key_prefix}:{func.__name__}:{str(args)}:{str(kwargs)}"
cache_key(key_prefix, name, args, kwargs) ==
    key_prefix \o <<":">> \o name \o <<":">> \o StrArgs(args) \o <<":">> \o StrKwargs(kwargs)

\* wrapper with the test `cache_key in cache._cache` in place of
\* `result is not None`: a stored None is returned as a hit
WrapperByMembership(s, cache_key_, fresh, ttl, t) ==
    LET got == get(s, cache_key_, t)
    IN  IF cache_key_ \in DOMAIN got.store
        THEN [store |-> got.store, invoked |-> FALSE, ret |-> got.ret]
        ELSE [store |-> set(got.store, cache_key_, fresh, ttl, t),
              invoked |-> TRUE, ret |-> fresh]

\* wrapper(*args, **kwargs) at time t, `fresh` being what func would return:
\* the store it leaves, whether it invoked func, and what it returns
wrapper(s, cache_key_, fresh, ttl, t) ==
    LET got == get(s, cache_key_, t)
    IN  IF got.ret # None
        THEN [store |-> got.store, invoked |-> FALSE, ret |-> got.ret]
        ELSE [store |-> set(got.store, cache_key_, fresh, ttl, t),
              invoked |-> TRUE, ret |-> fresh]

\* the decorator's arguments and the decorated function
MemoTtl == 1
MemoPrefix == <<"g","h">>
MemoName == <<"f">>

Kw(name, value) == [name |-> name, value |-> value]

\* the calls made: f(1), f(1, y=2), f(1, 2)
MemoCalls ==
    { [args |-> << 1 >>, kwargs |-> <<>>],
      [args |-> << 1 >>, kwargs |-> << Kw(<<"y">>, 2) >>],
      [args |-> << 1, 2 >>, kwargs |-> <<>>] }

\* what func returns
MemoResults == { None, "r1", "r2" }

KeyOf(c) == cache_key(MemoPrefix, MemoName, c.args, c.kwargs)

MemoIdle ==
    [op |-> "none", call |-> [args |-> <<>>, kwargs |-> <<>>], key |-> <<>>,
     fresh |-> None, invoked |-> FALSE, ret |-> None,
     before |-> EmptyStore, at |-> 0]

\* one call of the decorated function, run to its return
CachedCall ==
    /\ \E c \in MemoCalls, fresh \in MemoResults :
         LET r == wrapper(store, KeyOf(c), fresh, MemoTtl, now)
         IN  /\ store' = r.store
             /\ thread' = [thread EXCEPT !["main"] =
                              [op |-> "cached", call |-> c, key |-> KeyOf(c),
                               fresh |-> IF r.invoked THEN fresh ELSE None,
                               invoked |-> r.invoked, ret |-> r.ret,
                               before |-> store, at |-> now]]
             /\ lastSet' = IF r.invoked
                           THEN With(lastSet, KeyOf(c), Entry(fresh, now + MemoTtl))
                           ELSE lastSet
    /\ UNCHANGED <<repo, call, walk, now>>

InitMemo ==
    /\ repo = WithTree(BareMeta, <<>>) /\ call = Idle /\ walk = WalkIdle
    /\ store = EmptyStore /\ now = 0 /\ lastSet = EmptyStore
    /\ thread = [t \in {"main"} |-> MemoIdle]

NextMemo == CachedCall \/ Tick

SpecMemo == InitMemo /\ [][NextMemo]_vars

\* the tree walkers alone, over the wide and deep trees
InitTree == repo \in TreeRepos /\ call = Idle /\ walk = WalkIdle /\ CacheUnused

NextTree == GetAllFiles \/ GetStructure \/ WalkReturn

SpecTree == InitTree /\ [][NextTree]_vars

(***************************************************************************)
(* Claims about get_repo_health and analyze_repo, checked under Spec.      *)
(***************************************************************************)
Returned(op) == call.op = op /\ call.status = "returned"

RECURSIVE SumWeights(_)
SumWeights(checks) ==
    IF checks = <<>> THEN 0 ELSE Head(checks).weight + SumWeights(Tail(checks))

RECURSIVE SumPassed(_)
SumPassed(checks) ==
    IF checks = <<>> THEN 0
    ELSE (IF Head(checks).passed THEN Head(checks).weight ELSE 0) + SumPassed(Tail(checks))

\* some get_repo call of the service call failed: the handle was not resolved
HandleFailed ==
    \E f \in call.fail : f.site \in {"health.get_repo", "scan.get_repo", "analyze.get_repo"}

\* every file and the README of the repository decode as UTF-8
AllDecodable ==
    /\ repo.readme.utf8
    /\ \A e \in Walk(repo.tree) : e.content.utf8

\* C1: in analyze_repo and get_repo_health, once every get_repo has resolved the
\* handle, no failure of another accessor call (topics, languages, README,
\* listing, file content) surfaces: the call returns a result.
C1_OnlyHandleFailureSurfaces ==
    (/\ call.op \in {"analyze_repo", "get_repo_health"}
     /\ call.status # "idle"
     /\ AllDecodable
     /\ ~HandleFailed)
    => call.status = "returned"

\* C2: the weights of the checks returned by get_repo_health sum to 100, also
\* for a repository without a last-push timestamp.
C2_WeightsSumTo100 ==
    Returned("get_repo_health") => SumWeights(call.health.checks) = 100

\* C3: the score returned by get_repo_health is the sum of the weights of the
\* checks that passed, whichever checks pass and whichever accessor calls fail.
C3_ScoreIsSumOfPassedWeights ==
    Returned("get_repo_health") => call.health.score = SumPassed(call.health.checks)

\* a result with passed and failed checks, computed while the .gitignore fetch failed
C3_Witness ==
    /\ Returned("get_repo_health")
    /\ Failure("health.gitignore", GitignorePath) \in call.fail
    /\ \E i \in 1..Len(call.health.checks) : call.health.checks[i].passed
    /\ \E i \in 1..Len(call.health.checks) : ~call.health.checks[i].passed
    /\ call.health.score > 0

\* the repository of C4, as the call saw it: no README, license, description or
\* topics, a .gitignore that is fetched and lacks .env, pushed 200 days ago, and a
\* scan with one CRITICAL finding, which is an embedded secret
C4_Scenario ==
    /\ Returned("get_repo_health")
    /\ ~repo.readme.present
    /\ ~repo.license
    /\ repo.description = <<>>
    /\ repo.topics = <<>>
    /\ repo.pushed = [known |-> TRUE, days |-> 200]
    /\ \E g \in Lookup(repo.tree, GitignorePath) :
          g.content.utf8 /\ ~Contains(<<".","e","n","v">>, Lower(g.content.text))
    /\ Failure("health.gitignore", GitignorePath) \notin call.fail
    /\ Len(call.health.security.issues) = 1
    /\ call.health.security.issues[1].text # "Sensitive file is committed to repo!"

\* C4 as claimed: that repository scores 0 with grade F and every check failed.
C4_ScoresZero ==
    C4_Scenario =>
        /\ call.health.score = 0
        /\ call.health.grade = "F"
        /\ \A i \in 1..Len(call.health.checks) : ~call.health.checks[i].passed

\* C4 as amended: that repository scores 15 with grade F; the .gitignore check
\* passes, because the file exists, and every other check fails.
C4_ScoresFifteen ==
    C4_Scenario =>
        /\ call.health.score = 15
        /\ call.health.grade = "F"
        /\ Len(call.health.checks) = 7
        /\ \A i \in 1..Len(call.health.checks) :
              call.health.checks[i].passed <=> call.health.checks[i].name = ".gitignore"

C4_Witness == C4_Scenario /\ call.fail = {}

\* the grade the thresholds give a score
C22_GradeOf(score, grade) ==
    /\ grade \in {"A", "B", "C", "D", "F"}
    /\ grade = "A" <=> score >= 90
    /\ grade = "B" <=> (75 <= score /\ score < 90)
    /\ grade = "C" <=> (60 <= score /\ score < 75)
    /\ grade = "D" <=> (40 <= score /\ score < 60)
    /\ grade = "F" <=> score < 40

\* C22: the grade returned by get_repo_health is a function of the score
\* alone: A from 90, B from 75 to 89, C from 60 to 74, D from 40 to 59, F
\* below 40; so is the grade expression on every score from 0 to 100, the
\* values 89/90, 74/75, 59/60 and 39/40 among them.
C22_GradeFollowsScore ==
    /\ \A score \in 0..100 : C22_GradeOf(score, Grade(score))
    /\ Returned("get_repo_health") =>
          C22_GradeOf(call.health.score, call.health.grade)

\* a result on a threshold: score 90, reached without the description check
C22_Witness ==
    /\ Returned("get_repo_health")
    /\ call.health.score = 90
    /\ call.health.grade = "A"
    /\ repo.description = <<>>

\* the repository of C23, as the call saw it: a README and a .gitignore that
\* are fetched, the .gitignore complete, a license, a description, a topic, a
\* push one day ago, and a scan without a CRITICAL finding
C23_Scenario ==
    /\ Returned("get_repo_health")
    /\ \A i \in 1..Len(call.health.security.issues) :
          call.health.security.issues[i].type # "CRITICAL"
    /\ repo.readme.present
    /\ Failure("health.readme", <<>>) \notin call.fail
    /\ repo.license
    /\ \E g \in Lookup(repo.tree, GitignorePath) : g.content = GitignoreComplete
    /\ Failure("health.gitignore", GitignorePath) \notin call.fail
    /\ repo.description # <<>>
    /\ Len(repo.topics) >= 1
    /\ repo.pushed = [known |-> TRUE, days |-> 1]

\* C23: that repository scores 100 with grade A, all seven checks passed.
C23_ScoresHundred ==
    C23_Scenario =>
        /\ call.health.score = 100
        /\ call.health.grade = "A"
        /\ Len(call.health.checks) = 7
        /\ \A i \in 1..Len(call.health.checks) : call.health.checks[i].passed

\* the call on that repository with every accessor call succeeding
C23_Witness == C23_Scenario /\ call.fail = {}

\* the listing of the repository root raised during the scan of the call
RootListingFailed ==
    /\ Returned("get_repo_health")
    /\ Failure("scan.root", <<>>) \in call.fail

\* C24: when the accessor fails to list the repository root during
\* scan_security, the scan runs neither the file checks nor the .gitignore
\* check: the report has no findings, no warnings, score 100 and has_critical
\* false, whatever the repository holds, and the check "No Secrets Exposed"
\* of get_repo_health passes.
C24_FailedListingScansNothing ==
    RootListingFailed =>
        /\ call.health.security.issues = <<>>
        /\ call.health.security.warnings = <<>>
        /\ call.health.security.score = 100
        /\ ~call.health.security.has_critical
        /\ \E i \in 1..Len(call.health.checks) :
              /\ call.health.checks[i].name = "No Secrets Exposed"
              /\ call.health.checks[i].passed

\* the listing failed on a repository without a .gitignore that holds a
\* denylisted file with a secret: the scan that lists it reports both
C24_Witness ==
    /\ RootListingFailed
    /\ Lookup(repo.tree, GitignorePath) = {}
    /\ \E e \in Walk(repo.tree) : e.type = "file" /\ InList(e.name, dangerous_files)
    /\ scan_security({}).has_critical
    /\ scan_security({}).warnings # <<>>
    /\ call.health.security.score = 100

(***************************************************************************)
(* Claims about scan_security, checked under SpecScan.                     *)
(***************************************************************************)
Scanned == Returned("scan_security") /\ call.security.listed

SensitiveText == "Sensitive file is committed to repo!"

\* the embedded-secret findings of the report for one path
EmbeddedFor(path) ==
    { i \in 1..Len(call.security.issues) :
        call.security.issues[i].file = path /\ call.security.issues[i].text # SensitiveText }

\* the dangerous-filename findings of the report for one path
SensitiveFor(path) ==
    { i \in 1..Len(call.security.issues) :
        call.security.issues[i].file = path /\ call.security.issues[i].text = SensitiveText }

ListedPaths == { call.security.all_files[i] : i \in 1..Len(call.security.all_files) }

\* the scan fetched the file at `path` and decoded it
Fetched(path) ==
    /\ Failure("scan.file", path) \notin call.fail
    /\ \E e \in Lookup(repo.tree, path) : e.content.utf8

LinesOf(path) ==
    LET e == CHOOSE x \in Lookup(repo.tree, path) : TRUE
        lines == Split(e.content.text, "\n")
    IN  { lines[k] : k \in 1..Len(lines) }

Indicators == { secret_patterns[k].pattern : k \in 1..Len(secret_patterns) }

\* C5: score = max(0, 100 - 25n - 10m) for n CRITICAL findings and m warnings,
\* never negative and never above 100.
C5_ScoreFormula ==
    Returned("scan_security") =>
        LET n == Len(call.security.issues)
            m == Len(call.security.warnings)
            raw == 100 - 25 * n - 10 * m
        IN  /\ call.security.score = (IF raw < 0 THEN 0 ELSE raw)
            /\ call.security.score >= 0
            /\ call.security.score <= 100
            /\ \A i \in 1..n : call.security.issues[i].type = "CRITICAL"
            /\ \A i \in 1..m : call.security.warnings[i].type = "WARNING"

\* a report whose findings and warning would take the score below 0
C5_Witness ==
    /\ Returned("scan_security")
    /\ Len(call.security.warnings) = 1
    /\ 100 - 25 * Len(call.security.issues) - 10 * Len(call.security.warnings) < 0
    /\ call.security.score = 0

\* C6: a scan candidate that is not on the denylist and has a surviving secret
\* match yields exactly one CRITICAL finding, however many lines or patterns match.
C6_OneFindingPerFile ==
    Scanned =>
        \A p \in ListedPaths :
            (/\ IsScanCandidate(BaseName(p))
             /\ ~InList(BaseName(p), dangerous_files)
             /\ EmbeddedFor(p) # {})
            => Cardinality({ i \in 1..Len(call.security.issues) :
                               call.security.issues[i].file = p }) = 1

\* the value of a line: trimmed, then without its surrounding quotes
C7_Value(line) == StripChars(StripChars(Strip(AfterFirst(line, "=")), {"\""}), {"'"})

C7_Placeholders == { <<>>, <<"y","o","u","r","_","k","e","y","_","h","e","r","e">>, <<"x","x","x">>, <<"Y","O","U","R","_","A","P","I","_","K","E","Y">> }

\* every line of the file with an indicator and an "=" has an empty or placeholder value
C7_OnlyPlaceholders(path) ==
    \A line \in LinesOf(path) :
        (/\ InList("=", line)
         /\ \E ind \in Indicators : Contains(Lower(ind), Lower(line)))
        => C7_Value(line) \in C7_Placeholders

\* C7: a scan candidate in which every line with a secret indicator and an "="
\* has an empty or placeholder value yields no embedded-secret finding.
C7_PlaceholdersSuppressed ==
    Scanned =>
        \A p \in ListedPaths :
            (IsScanCandidate(BaseName(p)) /\ C7_OnlyPlaceholders(p))
            => EmbeddedFor(p) = {}

\* the file API_KEY=YOUR_API_KEY, fetched and scanned beside a file with findings
C7_Witness ==
    /\ Scanned
    /\ \E p \in ListedPaths :
          /\ IsScanCandidate(BaseName(p))
          /\ Fetched(p)
          /\ LinesOf(p) = {LinePlaceholder}
          /\ EmbeddedFor(p) = {}
    /\ \E p \in ListedPaths : EmbeddedFor(p) # {}

\* the pattern of an embedded-secret finding
PatternOf(msg) ==
    secret_patterns[CHOOSE k \in 1..Len(secret_patterns) :
                        secret_patterns[k].msg = msg].pattern

\* the key of a `key = value` line: the text before the first "="
C8_Key(line) == Split(line, "=")[1]

C8_LineReports(ind, line) ==
    /\ InList("=", line)
    /\ Contains(Lower(ind), Lower(line))
    /\ C7_Value(line) \notin C7_Placeholders

C9_DenylistByBaseName ==
    Scanned =>
        /\ \A p \in ListedPaths :
              Cardinality(SensitiveFor(p)) =
                  (IF InList(BaseName(p), dangerous_files) THEN 1 ELSE 0)
        /\ \A i \in 1..Len(call.security.issues) :
              call.security.issues[i].file \in ListedPaths
        /\ \A i, j \in 1..Len(call.security.all_files) :
              call.security.all_files[i] = call.security.all_files[j] => i = j

\* a nested denylisted file whose content could not be fetched, reported beside
\* a listed file that is not on the denylist
C9_Witness ==
    /\ Scanned
    /\ \E p \in ListedPaths :
          /\ p # BaseName(p)
          /\ Failure("scan.file", p) \in call.fail
          /\ Cardinality(SensitiveFor(p)) = 1
    /\ \E p \in ListedPaths : SensitiveFor(p) = {}

\* the .gitignore the scan reads: fetched and decoded
C10_Gitignore ==
    { e \in Lookup(repo.tree, GitignorePath) :
        e.content.utf8 /\ Failure("scan.gitignore", GitignorePath) \notin call.fail }

\* the expected entries that do not occur in the text, whatever the case
C10_Missing(text) ==
    SelectSeq(should_ignore, LAMBDA item : ~Contains(item, Lower(text)))

\* C10: when the root listing succeeds, the scan emits exactly one WARNING if no
\* .gitignore can be read, exactly one WARNING naming exactly the expected
\* entries that do not occur in the file if there are any, and no WARNING if the
\* file holds every expected entry.
C10_GitignoreWarnings ==
    Scanned =>
        IF C10_Gitignore = {}
        THEN call.security.warnings = <<Warning("No .gitignore file found!", <<>>)>>
        ELSE LET text == (CHOOSE e \in C10_Gitignore : TRUE).content.text
             IN  IF C10_Missing(text) # <<>>
                 THEN call.security.warnings =
                          <<Warning("Missing entries", Join(C10_Missing(text), <<","," ">>))>>
                 ELSE call.security.warnings = <<>>

\* a .gitignore that lists some expected entries in upper case and lacks others
C10_Witness ==
    /\ Scanned
    /\ \E e \in C10_Gitignore : e.content = GitignoreUpper
    /\ Len(call.security.warnings) = 1
    /\ call.security.warnings[1].detail = <<"_","_","p","y","c","a","c","h","e","_","_",","," ",".","v","e","n","v",","," ","v","e","n","v",","," ","*",".","p","y","c">>

\* the findings of a report for one path, in the order reported
IssuesOf(report, path) == SelectSeq(report.issues, LAMBDA x : x.file = path)

\* the same scan with every fetch of a candidate file succeeding (the scan is a
\* function of the failing accessors, so without such a failure it is the report)
C11_Undisturbed ==
    LET rest == { f \in call.fail : f.site # "scan.file" }
    IN  IF rest = call.fail THEN call.security ELSE scan_security(rest)

\* the fetch or the decoding of the candidate at `path` raises
C11_Skipped(path) ==
    /\ IsScanCandidate(BaseName(path))
    /\ \/ Failure("scan.file", path) \in call.fail
       \/ \E e \in Lookup(repo.tree, path) : ~e.content.utf8

\* C11: a failure to fetch or decode one candidate file is swallowed for that
\* file only: the scan returns a report, the skipped file has no embedded
\* finding, every denylisted path is still flagged, and the findings of every
\* other file and the warnings are those of the scan without the failure.
C11_FailureSkipsOneFile ==
    (call.op = "scan_security" /\ call.status # "idle" /\ ~HandleFailed) =>
        LET undisturbed == C11_Undisturbed
        IN  /\ call.status = "returned"
            /\ call.security.all_files = undisturbed.all_files
            /\ call.security.warnings = undisturbed.warnings
            /\ \A p \in ListedPaths :
                  /\ InList(BaseName(p), dangerous_files) => SensitiveFor(p) # {}
                  /\ C11_Skipped(p) => EmbeddedFor(p) = {}
                  /\ ~C11_Skipped(p) =>
                         IssuesOf(call.security, p) = IssuesOf(undisturbed, p)

\* the fetch of the first candidate fails and a later file has its findings
C11_Witness ==
    /\ Scanned
    /\ \E i, j \in 1..Len(call.security.all_files) :
          /\ i < j
          /\ Failure("scan.file", call.security.all_files[i]) \in call.fail
          /\ EmbeddedFor(call.security.all_files[j]) # {}

(***************************************************************************)
(* Claims about the tree walkers, checked under SpecTree.                  *)
(***************************************************************************)
Walked(op) == walk.op = op /\ walk.status = "returned"

\* number of directory levels of a path below the root
LevelOf(path) == IF path = <<>> THEN 0 ELSE Len(Split(path, "/"))

\* the path lies below the directory dir
Below(path, dir) == StartsWith(path, dir \o <<"/">>)

InfrastructureDirs == { <<"n","o","d","e","_","m","o","d","u","l","e","s">>, <<".","g","i","t">>, <<"v","e","n","d","o","r">>, <<"_","_","p","y","c","a","c","h","e","_","_">> }

\* some directory on the way to the path has an excluded name
UnderExcluded(path) ==
    LET parts == Split(path, "/")
    IN  \E k \in 1..(Len(parts) - 1) : parts[k] \in InfrastructureDirs

\* C12: the flat file listing returns at most 100 paths, and no path below a
\* directory named node_modules, .git, vendor or __pycache__, at any level.
C12_CappedAndPruned ==
    Walked("_get_all_files") =>
        /\ Len(walk.files) <= 100
        /\ \A i \in 1..Len(walk.files) : ~UnderExcluded(walk.files[i])

\* a tree with more than 100 files and nested excluded directories, listed
\* without a failure
C12_Witness ==
    /\ Walked("_get_all_files")
    /\ walk.fail = {}
    /\ Lookup(repo.tree, <<"s","r","c","/","f","1","0","1">>) # {}
    /\ Lookup(repo.tree, <<"s","r","c","/","n","o","d","e","_","m","o","d","u","l","e","s","/","x",".","j","s">>) # {}
    /\ Lookup(repo.tree, <<"l","i","b","/","v","e","n","d","o","r","/","v",".","p","y">>) # {}
    /\ Len(walk.files) = 100

\* C13: the tree listing requests no listing more than maxDepth (2) levels
\* below its starting path, and a call with depth > maxDepth returns an empty
\* list without a request to the accessor.
C13_DepthBounded ==
    Walked("_get_structure") =>
        /\ \A i \in 1..Len(walk.requests) :
              LevelOf(walk.requests[i]) - LevelOf(walk.start) <= 2
        /\ walk.depth > 2 => walk.items = <<>> /\ walk.requests = <<>>

\* a walk from the root that lists src/a, two levels down, and not src/a/b
C13_Witness ==
    /\ Walked("_get_structure")
    /\ walk.start = Root /\ walk.depth = 0 /\ walk.fail = {}
    /\ \E i \in 1..Len(walk.requests) : walk.requests[i] = <<"s","r","c","/","a">>
    /\ Lookup(repo.tree, <<"s","r","c","/","a","/","b","/","c">>) # {}
    /\ \A i \in 1..Len(walk.requests) : walk.requests[i] # <<"s","r","c","/","a","/","b">>

\* the listing below `entries` with the directory at `path` emptied
RECURSIVE Emptied(_, _)
Emptied(entries, path) ==
    [i \in 1..Len(entries) |->
        IF entries[i].type # "dir" THEN entries[i]
        ELSE IF entries[i].path = path THEN [entries[i] EXCEPT !.kids = <<>>]
        ELSE [entries[i] EXCEPT !.kids = Emptied(@, path)]]

\* a tree result with the children of the directories at `paths` removed
RECURSIVE Blanked(_, _)
Blanked(items, paths) ==
    [i \in 1..Len(items) |->
        IF "children" \notin DOMAIN items[i] THEN items[i]
        ELSE IF items[i].path \in paths THEN [items[i] EXCEPT !.children = <<>>]
        ELSE [items[i] EXCEPT !.children = Blanked(@, paths)]]

FailedDirs == { f.path : f \in walk.fail }

RECURSIVE AllDirectoriesHaveChildren(_)
AllDirectoriesHaveChildren(items) ==
    \A i \in 1..Len(items) :
        items[i].type = "dir" =>
            /\ "children" \in DOMAIN items[i]
            /\ AllDirectoriesHaveChildren(items[i].children)

\* C15: every directory entry of the tree returned by _get_structure carries
\* a children list, at every depth at which directories are reported.
C15_DirectoriesCarryChildren ==
    Walked("_get_structure") => AllDirectoriesHaveChildren(walk.items)

(***************************************************************************)
(* Claims about dependency extraction, checked under SpecParse.            *)
(***************************************************************************)
\* the manifests at the root of the repository
RootManifests ==
    { e \in { repo.tree[i] : i \in 1..Len(repo.tree) } :
        e.type = "file" /\ InList(e.name, package_files) }

\* the dependency entries analyze_repo returned for a manifest
EntriesOf(filename) ==
    { i \in 1..Len(call.analysis.dependencies) :
        call.analysis.dependencies[i].file = filename }

\* the names analyze_repo returned for a line-based manifest
NamesOf(filename) ==
    UNION { { call.analysis.dependencies[i].parsed[k] :
                k \in 1..Len(call.analysis.dependencies[i].parsed) } :
            i \in EntriesOf(filename) }

\* bytes that do not decode, a truncated or empty document, a JSON document
\* that is no keyed object or whose dependency group is no mapping
C16_Malformed(e) ==
    \/ ~e.content.utf8
    \/ /\ e.name \in { <<"p","a","c","k","a","g","e",".","j","s","o","n">>, <<"c","o","m","p","o","s","e","r",".","j","s","o","n">> }
       /\ e.content.text \in { <<>>, PackageJsonTruncated, PackageJsonArray,
                               PackageJsonListGroup, ComposerJsonNullGroup }

\* C16: whatever a manifest holds, dependency extraction does not raise to the
\* caller of analyze_repo, and a malformed manifest yields no entry.
C16_ExtractionNeverRaises ==
    (/\ call.op = "analyze_repo" /\ call.status # "idle"
     /\ repo.readme.utf8
     /\ \A f \in call.fail : f.site \notin {"analyze.get_repo", "analyze.topics"}) =>
        /\ call.status = "returned"
        /\ \A e \in RootManifests : C16_Malformed(e) => EntriesOf(e.name) = {}

VersionOperators == { <<"=","=">>, <<">","=">>, <<"<","=">>, <<"~","=">>, <<"!","=">>, <<"<">>, <<">">> }

\* C17: every name returned for a requirements list or a pyproject-style TOML
\* holds no version operator and no quote character.
C17_NamesAreBare ==
    Returned("analyze_repo") =>
        \A name \in NamesOf(RequirementsTxt) \cup NamesOf(<<"p","y","p","r","o","j","e","c","t",".","t","o","m","l">>) :
            /\ \A op \in VersionOperators : ~Contains(op, name)
            /\ ~Contains(<<"\"">>, name) /\ ~Contains(<<"'">>, name)

\* the lines of the go.mod the call fetched
C18_Lines ==
    UNION { LET lines == Split(e.content.text, "\n")
            IN  { lines[k] : k \in 1..Len(lines) } :
            e \in { x \in RootManifests :
                      /\ x.name = <<"g","o",".","m","o","d">> /\ x.content.utf8
                      /\ Failure("analyze.manifest", x.name) \notin call.fail } }

\* C18: the Go module extractor returns the module path of every line that
\* starts with `require` and names a path with a slash, and the first token of
\* every tab-indented line when that token holds a slash.
C18_GoModPaths ==
    Returned("analyze_repo") =>
        \A line \in C18_Lines :
            LET tokens == SplitWhitespace(line)
            IN  /\ (/\ StartsWith(line, <<"r","e","q","u","i","r","e">>) /\ Len(tokens) >= 2
                    /\ tokens[1] = <<"r","e","q","u","i","r","e">> /\ Contains(<<"/">>, tokens[2]))
                       => tokens[2] \in NamesOf(<<"g","o",".","m","o","d">>)
                /\ (/\ StartsWith(line, <<"\t">>) /\ tokens # <<>>
                    /\ Contains(<<"/">>, tokens[1]))
                       => tokens[1] \in NamesOf(<<"g","o",".","m","o","d">>)

(***************************************************************************)
(* Claims about the cache used by one caller, checked under SpecCache.     *)
(***************************************************************************)
Main == thread["main"]

\* the store holds what `before` held, but for the key
SameBut(before, key) ==
    /\ DOMAIN store = DOMAIN before \ {key}
    /\ \A k \in DOMAIN store : store[k] = before[k]

\* the outcome of the last operation, when it is a get or a set: decided by
\* the expiry (set time + ttl) of the entry the get found
C19_GetOutcome ==
    /\ \A k \in DOMAIN store : store[k] = lastSet[k]
    /\ Main.op = "set" =>
          Main.key \in DOMAIN store
          /\ store[Main.key] = Entry(Main.value, Main.at + Main.ttl)
    /\ Main.op = "get" =>
          LET k == Main.key
              before == Main.before
          IN  IF k \notin DOMAIN before
              THEN Main.ret = None /\ store = before
              ELSE IF Main.at >= before[k].expiry
              THEN Main.ret = None /\ SameBut(before, k)
              ELSE Main.ret = lastSet[k].value /\ store = before

\* a step that removes or replaces an entry is a get of that key at or after
\* its expiry, a set or delete of that key, or a clear
C19_OnlyTouchRemoves ==
    \A k \in DOMAIN store :
        (k \notin DOMAIN store' \/ store'[k] # store[k]) =>
            \/ /\ thread'["main"].op = "get" /\ thread'["main"].key = k
               /\ now >= store[k].expiry
            \/ thread'["main"].op \in {"set", "delete"} /\ thread'["main"].key = k
            \/ thread'["main"].op \in {"clear_pattern", "clear_all"}

\* C19: a get at or after the entry's expiry (set time + ttl) returns absent
\* and removes the entry; a get before expiry returns the last value set and
\* leaves the store unchanged; an expired entry stays in the store until such
\* a get, a delete or a clear touches it.
C19_LazyExpiry == []C19_GetOutcome /\ [][C19_OnlyTouchRemoves]_vars

\* a get has found its entry expired and removed it, while the expired entry
\* of another key is still stored
C19_Witness ==
    /\ Main.op = "get"
    /\ Main.key \in DOMAIN Main.before
    /\ Main.at >= Main.before[Main.key].expiry
    /\ Main.ret = None
    /\ Main.key \notin DOMAIN store
    /\ \E k \in DOMAIN store : store[k].expiry <= now

\* the pattern is a run of consecutive characters of the key
Occurs(pattern, key) ==
    \E i \in 1..(Len(key) - Len(pattern) + 1) :
        SubSeq(key, i, i + Len(pattern) - 1) = pattern

\* C21: clear_pattern(p) removes exactly the keys that contain p as a
\* substring, expired or not, and leaves every other entry's value and expiry
\* unchanged; with the empty pattern it removes every key.
C21_ClearsBySubstring ==
    Main.op = "clear_pattern" =>
        /\ DOMAIN store = { k \in DOMAIN Main.before : ~Occurs(Main.key, k) }
        /\ \A k \in DOMAIN store : store[k] = Main.before[k]
        /\ Main.key = <<>> => store = EmptyStore

\* a pattern from the middle of one key has removed that key, expired, and
\* left the other key, expired as well, with its entry
C21_Witness ==
    /\ Main.op = "clear_pattern" /\ Main.key = <<"u","s","e","r">>
    /\ DOMAIN Main.before = Keys
    /\ DOMAIN store = {KeyRepos}
    /\ \A k \in Keys : Main.before[k].expiry <= Main.at

(***************************************************************************)
(* Claims about the cached decorator, checked under SpecMemo.              *)
(***************************************************************************)
\* the last call found the entry an earlier call with the same arguments
\* stored, and found it before its expiry
C25_RepeatBeforeExpiry ==
    /\ Main.op = "cached"
    /\ Main.key \in DOMAIN Main.before
    /\ Main.at < Main.before[Main.key].expiry

\* the last call found that entry at or after its expiry
C25_RepeatAfterExpiry ==
    /\ Main.op = "cached"
    /\ Main.key \in DOMAIN Main.before
    /\ Main.at >= Main.before[Main.key].expiry

\* the last call invoked the function, returned its result and stored it
\* for ttl seconds from the call
C25_Refreshed ==
    /\ Main.invoked
    /\ Main.ret = Main.fresh
    /\ store = With(Main.before, Main.key, Entry(Main.fresh, Main.at + MemoTtl))

\* C25: a repeat call with the same arguments before the stored entry expires
\* invokes the function again if and only if the stored result was None;
\* otherwise it returns the stored result without invoking the function and
\* leaves the entry as it is; the call after expiry invokes the function and
\* stores the new result. The store holds what the calls last stored.
C25_NoneIsNeverAHit ==
    /\ store = lastSet
    /\ Main.op = "cached" => Main.key = KeyOf(Main.call)
    /\ C25_RepeatBeforeExpiry =>
          /\ Main.invoked <=> Main.before[Main.key].value = None
          /\ Main.invoked => C25_Refreshed
          /\ ~Main.invoked =>
                Main.ret = Main.before[Main.key].value /\ store = Main.before
    /\ C25_RepeatAfterExpiry => C25_Refreshed

\* a stored None was found before its expiry and the function ran again,
\* while the result stored for other arguments is still held
C25_Witness ==
    /\ C25_RepeatBeforeExpiry
    /\ Main.before[Main.key].value = None
    /\ Main.invoked
    /\ Main.fresh # None
    /\ \E k \in DOMAIN store : k # Main.key /\ store[k].value # None

(***************************************************************************)
(* Claims about the cache shared by two threads, checked under SpecRace.   *)
(***************************************************************************)
\* C20: the operations of two threads on one key are serialized: a get never
\* fails because the key vanished between its membership test and its read
\* (or its del), and the eviction of a get removes no entry but the one the
\* get read, so never a value a later set stored.
C20_Serialized ==
    \A t \in DOMAIN thread :
        thread[t].op = "get" =>
            /\ ~thread[t].error
            /\ thread[t].removed # NoEntry => thread[t].removed = thread[t].entry

====
